---- MODULE Spec2Model ----
(***************************************************************************)
(* Celestial catalog, spatial search, coordinate functions and scan flow   *)
(* of eppur-si-muove.                                                      *)
(*                                                                         *)
(* Numbers.  JavaScript numbers are IEEE-754 doubles.  Angles are kept as  *)
(* integer counts of 0.001 degree (and of 0.001 hour), so hours * 15 is    *)
(* still degrees; the coordinate functions count hours in 1/15000 hour     *)
(* (operator Hours).  NaN and the infinities are three integers outside    *)
(* the range of every angle; the comparison and arithmetic operators below *)
(* treat them as JavaScript does.  A double rounds every sum to its        *)
(* 53-bit significand; the model scales the significand down to 18 bits    *)
(* (operator Fl), so that the rounding of `x + 360` is within reach.       *)
(***************************************************************************)
EXTENDS Integers, Sequences, FiniteSets, TLC

VARIABLES
    \* CelestialDataManagerImpl
    loaded, all, idToObj, regions, byType,
    \* the latest loadDataset call: the array passed, the same array after
    \* the call, how the call ended ("none", "returned", "threw"), and whether
    \* the call before it was given the same dataset
    argIn, argOut, outcome, reloaded,
    \* one call of searchCelestialObjects: the boundary and the dataset
    \* passed, whether it was made and how it ended ("no", "returned",
    \* "error"), the list returned and how many objects the loop examined
    sArea, sDataset, sCalled, sResults, sScanned,
    \* the search with its debug mode: window.__PREDICTABLE_SEARCH,
    \* window.__SCAN_COUNT (0 while undefined), and the calls made so far,
    \* each with its arguments and the list it returned
    predictable, __SCAN_COUNT, calls,
    \* useScan and the hooks it reads: which useScan file runs, the mock
    \* sensor switch, the device orientation state, the orientation
    \* listener, the position state
    variant, mockEnabled, devAlpha, devBeta, devGamma, listening, geoLat, geoLon,
    \* useScan's React state
    state, results, progress, highlight,
    \* one invocation of scanArea: where it is suspended, the hook values its
    \* closure holds, its local variables, the time its loop has waited
    pc, closure, ori, latitude, longitude, elapsed,
    \* what the invocation did: geolocation was unavailable when it read the
    \* position, it took the built-in location, it called
    \* calculateSearchArea and searchCelestialObjects, the error it threw,
    \* the value it resolved to, and `results` as it was when it began
    geoMissing, usedFallback, calcCalled, searchCalled, thrown,
    returned, resultsBefore,
    \* one call of a function of celestialCoordinates or searchArea: the
    \* function and its arguments, what it returned, whether it was made
    call, ret, called,
    \* the page the celestialDataManager module is evaluated in: whether
    \* `window` is defined, window.__CELESTIAL_DATA_LOADED__, and whether the
    \* module has been evaluated
    window, __CELESTIAL_DATA_LOADED__, evaluated,
    \* invocations of scanArea that overlap: the number of the invocation
    \* whose variables are in `pc` ... `resultsBefore` and the time it began,
    \* and the variables of the other invocations begun so far
    invocation, others

moduleVars == <<window, __CELESTIAL_DATA_LOADED__, evaluated>>
catVars == <<loaded, all, idToObj, regions, byType, argIn, argOut, outcome, reloaded,
             moduleVars>>
debugVars == <<predictable, __SCAN_COUNT, calls>>
searchVars == <<sArea, sDataset, sCalled, sResults, sScanned, debugVars>>

sensorVars == <<variant, mockEnabled, devAlpha, devBeta, devGamma, listening, geoLat, geoLon>>
hookVars == <<state, results, progress, highlight>>
callVars == <<pc, closure, ori, latitude, longitude, elapsed>>
traceVars == <<geoMissing, usedFallback, calcCalled, searchCalled, thrown,
               returned, resultsBefore>>
rescanVars == <<invocation, others>>
scanVars == <<sensorVars, hookVars, callVars, traceVars, rescanVars>>

coordVars == <<call, ret, called>>

vars == <<catVars, searchVars, scanVars, coordVars>>

-----------------------------------------------------------------------------
(* Numbers *)

PosInf == 2 * 1000000000
NegInf == -PosInf
NaN == PosInf + 1
Null == PosInf + 2          \* null, where a hook value may be null

IsNaN(x) == x = NaN
\* The global isFinite (it converts null to 0) and Number.isFinite.
isFinite(x) == x # NaN /\ x # PosInf /\ x # NegInf
NumberIsFinite(x) == x # Null /\ isFinite(x)
\* x ?? d
Nullish(x, d) == IF x = Null THEN d ELSE x

\* JavaScript comparisons: every comparison with NaN is false.
Lt(a, b) == ~IsNaN(a) /\ ~IsNaN(b) /\ a < b
Gt(a, b) == ~IsNaN(a) /\ ~IsNaN(b) /\ a > b
Le(a, b) == ~IsNaN(a) /\ ~IsNaN(b) /\ a <= b
Ge(a, b) == ~IsNaN(a) /\ ~IsNaN(b) /\ a >= b

Deg(d) == d * 1000          \* d degrees (or hours) in model units

Abs(x) == IF x < 0 THEN -x ELSE x

\* JavaScript's % on finite numbers: the remainder has the dividend's sign.
JsRem(a, m) == IF a >= 0 THEN a % m ELSE -((-a) % m)

\* Round to nearest, ties to even, on the scaled-down significand: below
\* 2^18 units every count is representable, from 2^18 up only even counts.
Fl(v) ==
    IF Abs(v) < 262144 \/ v % 2 = 0 THEN v
    ELSE IF ((v - 1) \div 2) % 2 = 0 THEN v - 1 ELSE v + 1

-----------------------------------------------------------------------------
(* celestialDataManager *)

RA_BIN_DEG == 10
DEC_BIN_DEG == 10

KnownDisposicion == {"Planeta Confirmado", "Candidato", "Falso Positivo"}

wrapRa(ra) ==
    LET x == JsRem(ra, Deg(360))
    IN  IF x < 0 THEN Fl(x + Deg(360)) ELSE x

clampDec(dec) ==
    LET lo == IF Deg(90) < dec THEN Deg(90) ELSE dec      \* Math.min(90, dec)
    IN  IF -Deg(90) > lo THEN -Deg(90) ELSE lo              \* Math.max(-90, .)

regionKey(raDeg, decDeg) ==
    LET ra == wrapRa(raDeg)
        dec == clampDec(decDeg)
        raBin == ra \div Deg(RA_BIN_DEG)
        decBin == (dec + Deg(90)) \div Deg(DEC_BIN_DEG)
    IN  <<raBin, decBin>>

\* The state of the manager as one record, for the loop of loadDataset.
\* Objects are referred to by their position in `all`: the normalized object
\* is allocated once per item and the three indices hold that one reference.
EmptyCatalog ==
    [loaded |-> FALSE,
     all |-> <<>>,
     idToObj |-> <<>>,                      \* Map id_objeto -> reference
     regions |-> <<>>,                      \* Map region key -> references
     byType |-> [t \in KnownDisposicion |-> <<>>],
     threw |-> FALSE]

MapSet(m, k, v) == [x \in DOMAIN m \cup {k} |-> IF x = k THEN v ELSE m[x]]

\* One iteration of the for-of loop with the region bucket filled from the
\* front.
LoadItemPrepend(c, item) ==
    LET normalized == [item EXCEPT !.Loc1_RA = wrapRa(item.Loc1_RA),
                                   !.Loc2_DEC = clampDec(item.Loc2_DEC)]
        ref == Len(c.all) + 1
        c1 == [c EXCEPT !.all = Append(c.all, normalized),
                        !.idToObj = MapSet(c.idToObj, normalized.id_objeto, ref)]
        key == regionKey(normalized.Loc1_RA, normalized.Loc2_DEC)
    IN  IF normalized.disposicion \notin KnownDisposicion
        THEN [c1 EXCEPT !.threw = TRUE]
        ELSE [c1 EXCEPT
                !.byType[normalized.disposicion] = Append(@, ref),
                !.regions = IF key \in DOMAIN c1.regions
                            THEN [c1.regions EXCEPT ![key] = <<ref>> \o @]
                            ELSE MapSet(c1.regions, key, <<ref>>)]

\* One iteration of the for-of loop of loadDataset.
LoadItem(c, item) ==
    LET normalized == [item EXCEPT !.Loc1_RA = wrapRa(item.Loc1_RA),
                                   !.Loc2_DEC = clampDec(item.Loc2_DEC)]
        ref == Len(c.all) + 1
        c1 == [c EXCEPT !.all = Append(c.all, normalized),
                        !.idToObj = MapSet(c.idToObj, normalized.id_objeto, ref)]
        key == regionKey(normalized.Loc1_RA, normalized.Loc2_DEC)
    IN  IF normalized.disposicion \notin KnownDisposicion
        THEN [c1 EXCEPT !.threw = TRUE]     \* byType[...] is undefined: TypeError
        ELSE [c1 EXCEPT
                !.byType[normalized.disposicion] = Append(@, ref),
                !.regions = IF key \in DOMAIN c1.regions
                            THEN [c1.regions EXCEPT ![key] = Append(@, ref)]
                            ELSE MapSet(c1.regions, key, <<ref>>)]

RECURSIVE LoadLoop(_, _, _)
LoadLoop(c, dataset, i) ==
    IF i > Len(dataset) \/ c.threw THEN c
    ELSE LoadLoop(LoadItem(c, dataset[i]), dataset, i + 1)

loadDatasetNoReset(c, dataset) ==
    LET c1 == LoadLoop([c EXCEPT !.loaded = FALSE, !.threw = FALSE], dataset, 1)
    IN  IF c1.threw THEN c1 ELSE [c1 EXCEPT !.loaded = TRUE]

\* loadDataset(dataset) run on the manager in state c: reset, loop, loaded = true.
loadDataset(c, dataset) ==
    LET c1 == LoadLoop(EmptyCatalog, dataset, 1)
    IN  IF c1.threw THEN c1 ELSE [c1 EXCEPT !.loaded = TRUE]

Catalog ==
    [loaded |-> loaded, all |-> all, idToObj |-> idToObj, regions |-> regions,
     byType |-> byType, threw |-> FALSE]

isLoaded == loaded
getAllObjects == all
getObjectById(id) == IF id \in DOMAIN idToObj THEN idToObj[id] ELSE 0   \* 0: undefined
getObjectsByType(t) == IF t \in DOMAIN byType THEN byType[t] ELSE <<>>
_getRegion(raDeg, decDeg) ==
    LET key == regionKey(raDeg, decDeg)
    IN  IF key \in DOMAIN regions THEN regions[key] ELSE <<>>

-----------------------------------------------------------------------------
(* Inputs *)

MaxLen == 3

Obj(id, disp, ra, dec) ==
    [id_objeto |-> id, disposicion |-> disp, Loc1_RA |-> ra, Loc2_DEC |-> dec,
     radio_planeta |-> 1]

Records ==
    { Obj("a", "Planeta Confirmado", 7500, 0),
      Obj("b", "Candidato", 367500, -97500),
      Obj("b", "Falso Positivo", -7500, 0),
      Obj("a", "Candidato", -1, 90000),
      Obj("c", "Desconocido", 180000, 0),
      Obj("c", "Planeta Confirmado", 0, 97500) }

Datasets == UNION { [1..n -> Records] : n \in 0..MaxLen }

\* The generated default dataset, two of its objects standing for the 800.
defaultDataset ==
    << Obj("a", "Planeta Confirmado", 7500, 0), Obj("b", "Candidato", 187500, -45000) >>

-----------------------------------------------------------------------------
(* spatialSearch *)

\* Math.sin and Math.cos of an angle in degrees, times 1000, tabulated every
\* 7.5 degrees; every angle the search is given lies on that grid.  A
\* non-finite angle gives NaN.  The table is rounded to three decimals as
\* Math.sin is rounded to 53 bits: sin^2 + cos^2 need not be exactly 1.
SinTable == <<0, 131, 259, 383, 500, 609, 707, 793, 866, 924, 966, 991, 1000>>

SinDeg(a) ==
    IF ~isFinite(a) THEN NaN
    ELSE LET k == (a % Deg(360)) \div 7500
         IN  IF k <= 12 THEN SinTable[k + 1]
             ELSE IF k <= 24 THEN SinTable[24 - k + 1]
             ELSE IF k <= 36 THEN -SinTable[k - 24 + 1]
             ELSE -SinTable[48 - k + 1]

CosDeg(a) == IF ~isFinite(a) THEN NaN ELSE SinDeg(a + Deg(90))

\* Math.acos of c / 10^6, in model degrees: linear between the tabulated
\* points, so exact on the grid and strictly decreasing.
AcosDeg(c) ==
    LET k == CHOOSE j \in 0..23 :
                 /\ CosDeg(j * 7500) * 1000 >= c
                 /\ c >= CosDeg((j + 1) * 7500) * 1000
                 /\ \A i \in 0..(j - 1) : c < CosDeg((i + 1) * 7500) * 1000
        hi == CosDeg(k * 7500) * 1000
        lo == CosDeg((k + 1) * 7500) * 1000
    IN  k * 7500 + (7500 * (hi - c)) \div (hi - lo)

wrapDegrees(d) ==
    IF ~isFinite(d) THEN NaN
    ELSE LET x == JsRem(d, Deg(360))
         IN  IF x < 0 THEN Fl(x + Deg(360)) ELSE x

raHoursToDeg(hours) ==
    IF IsNaN(hours) THEN NaN
    ELSE IF hours = PosInf \/ hours = NegInf THEN hours
    ELSE hours * 15

angularSeparationDeg(ra1Deg, dec1Deg, ra2Deg, dec2Deg) ==
    IF ~isFinite(ra1Deg) \/ ~isFinite(dec1Deg) \/ ~isFinite(ra2Deg) \/ ~isFinite(dec2Deg)
    THEN NaN
    ELSE LET dl == wrapDegrees(ra2Deg - ra1Deg)
             cosd == (SinDeg(dec1Deg) * SinDeg(dec2Deg) * 1000
                      + CosDeg(dec1Deg) * CosDeg(dec2Deg) * CosDeg(dl)) \div 1000
             clamped == IF cosd > 1000000 THEN 1000000
                        ELSE IF cosd < -1000000 THEN -1000000 ELSE cosd
         IN  AcosDeg(clamped)

segmentsNoWrap(minRADeg, maxRADeg) == << [min |-> minRADeg, max |-> maxRADeg] >>

\* The RA segments of a boundary: two when it crosses RA 0.
segments(minRADeg, maxRADeg) ==
    IF Le(minRADeg, maxRADeg)
    THEN << [min |-> minRADeg, max |-> maxRADeg] >>
    ELSE << [min |-> minRADeg, max |-> Deg(360)], [min |-> 0, max |-> maxRADeg] >>

\* The two `continue` tests of the loop: the object passes when neither fires.
passes(searchArea, obj) ==
    LET ra == wrapDegrees(obj.Loc1_RA)
        dec == obj.Loc2_DEC
        segs == segments(raHoursToDeg(searchArea.minRA), raHoursToDeg(searchArea.maxRA))
    IN  /\ ~(Lt(dec, searchArea.minDec) \/ Gt(dec, searchArea.maxDec))
        /\ \E n \in DOMAIN segs : Ge(ra, segs[n].min) /\ Le(ra, segs[n].max)

\* The loop: one SearchResult per passing object, in the order of `source`.
\* A result refers to its object by the object's position in `source`.
\* (bearingDeg is not modelled: no property reads it.)
RECURSIVE scan(_, _, _)
scan(searchArea, source, i) ==
    IF i > Len(source) THEN <<>>
    ELSE LET obj == source[i]
             rest == scan(searchArea, source, i + 1)
         IN  IF passes(searchArea, obj)
             THEN << [object |-> i,
                      distanceDeg |-> angularSeparationDeg(raHoursToDeg(searchArea.centerRA),
                                          searchArea.centerDec,
                                          wrapDegrees(obj.Loc1_RA), obj.Loc2_DEC)] >> \o rest
             ELSE rest

\* The comparator (a, b) => a.distanceDeg - b.distanceDeg as Array.sort reads
\* it: a NaN result counts as +0.
compare(a, b) ==
    IF IsNaN(a.distanceDeg) \/ IsNaN(b.distanceDeg) THEN 0
    ELSE a.distanceDeg - b.distanceDeg

\* Array.prototype.sort is stable: each element goes before the first one
\* that compares greater.
insertSorted(sorted, x) ==
    LET greater == { n \in DOMAIN sorted : compare(sorted[n], x) > 0 }
        at == IF greater = {} THEN Len(sorted) + 1
              ELSE CHOOSE n \in greater : \A m \in greater : n <= m
    IN  SubSeq(sorted, 1, at - 1) \o <<x>> \o SubSeq(sorted, at, Len(sorted))

RECURSIVE sortFrom(_, _, _)
sortFrom(list, sorted, i) ==
    IF i > Len(list) THEN sorted
    ELSE sortFrom(list, insertSorted(sorted, list[i]), i + 1)

sortUnstable(list) ==
    LET RECURSIVE rev(_, _)
        rev(sorted, i) == IF i < 1 THEN sorted
                          ELSE rev(insertSorted(sorted, list[i]), i - 1)
    IN  rev(<<>>, Len(list))

\* results.sort(...)
sort(list) == sortFrom(list, <<>>, 1)

\* searchCelestialObjects(searchArea, dataset): the list returned and the
\* number of objects the loop examined.
searchCelestialObjects(searchArea, dataset) ==
    [results |-> sort(scan(searchArea, dataset, 1)),
     scanned |-> Len(dataset),
     ended |-> "returned"]

Area(cRA, cDec, loRA, hiRA, loDec, hiDec) ==
    [centerRA |-> cRA, centerDec |-> cDec, minRA |-> loRA, maxRA |-> hiRA,
     minDec |-> loDec, maxDec |-> hiDec]

\* Boundaries: across RA 0 (23.5h..0.5h), within one segment, the full
\* circle at the pole and on the equator, across RA 0 at the pole, one
\* centered off the equator, and three with a non-finite field.
FiniteAreas ==
    { Area(0, 0, 23500, 500, -7500, 7500),
      Area(500, 0, 0, 1000, -7500, 7500),
      Area(0, 90000, 0, 24000, 82500, 90000),
      Area(12000, 0, 0, 24000, -90000, 90000),
      Area(0, 90000, 23500, 500, 82500, 97500),
      Area(500, 7500, 0, 1000, 0, 15000) }

NonFiniteAreas ==
    { Area(0, 0, 23500, 500, NaN, 7500),
      Area(500, 0, 0, PosInf, -7500, 7500),
      Area(NaN, 0, 0, 24000, -90000, 90000) }

Areas == FiniteAreas \cup NonFiniteAreas

\* The datasets searched: those loaded, and two with an object at
\* (7.5, 7.5) degrees, the center of the last boundary.
SearchDatasets ==
    Datasets \cup { << Obj("d", "Candidato", 7500, 7500) >>,
                    << Obj("a", "Planeta Confirmado", 7500, 0), Obj("d", "Candidato", 7500, 7500) >> }

FiniteArea(a) ==
    /\ isFinite(a.centerRA) /\ isFinite(a.centerDec)
    /\ isFinite(a.minRA) /\ isFinite(a.maxRA)
    /\ isFinite(a.minDec) /\ isFinite(a.maxDec)

-----------------------------------------------------------------------------
(* celestialCoordinates, searchArea *)

\* Hours in these functions are counted in units of 1/15000 hour, the hour
\* angle of 0.001 degree: 24 hours are as many units as 360 degrees, a
\* division by 15 leaves the count as it is, and `x + 24` rounds where
\* `x + 360` does.  An input `undefined` is the input NaN: isFinite and the
\* arithmetic both convert it to NaN.
Hours(h) == h * 15000

\* Magnitudes below the resolution of the sine table keep their order.  Tiny
\* stands for a rounding residual such as Math.cos(Math.PI / 2) = 6.1e-17,
\* which is not zero; the literals 1e-9 of altAzToRaDec and 1e-6 of
\* calculateSearchArea lie between it and the cosine of 89 degrees (17).
Tiny == 1
EPS_COS_DEC == 3
EPS_POLE == 10

\* deg * Math.PI / 180.  The model keeps the angle in degrees; a magnitude
\* from Overflow up (5.7e307 in doubles) has an infinite product with Math.PI.
Overflow == PosInf \div 2

degToRad(deg) ==
    IF ~isFinite(deg) THEN deg
    ELSE IF deg >= Overflow THEN PosInf
    ELSE IF deg <= -Overflow THEN NegInf
    ELSE deg

radToDeg(rad) == rad

Sign(x) == IF x < 0 THEN -1 ELSE IF x > 0 THEN 1 ELSE 0

\* Math.sin strictly inside the first quadrant, times 1000: the table, with
\* 1 and 89 degrees beside it.
SinQ(q) ==
    IF q = Deg(1) THEN 17
    ELSE IF q = Deg(89) THEN 1000
    ELSE SinTable[q \div 7500 + 1]

\* Math.sin and Math.cos of degToRad(.), times 1000.  At the multiples of 90
\* degrees where the mathematical value is 0 the double is a residual,
\* except Math.sin(0) = 0.
MathSin(rad) ==
    IF ~isFinite(rad) THEN NaN
    ELSE LET r == rad % Deg(360)
         IN  IF r = 0 THEN 0
             ELSE IF r < Deg(90) THEN SinQ(r)
             ELSE IF r = Deg(90) THEN 1000
             ELSE IF r < Deg(180) THEN SinQ(Deg(180) - r)
             ELSE IF r = Deg(180) THEN Tiny
             ELSE IF r < Deg(270) THEN -SinQ(r - Deg(180))
             ELSE IF r = Deg(270) THEN -1000
             ELSE -SinQ(Deg(360) - r)

MathCos(rad) ==
    IF ~isFinite(rad) THEN NaN
    ELSE LET r == rad % Deg(360)
         IN  IF r = 0 THEN 1000
             ELSE IF r < Deg(90) THEN SinQ(Deg(90) - r)
             ELSE IF r = Deg(90) THEN Tiny
             ELSE IF r < Deg(180) THEN -SinQ(r - Deg(90))
             ELSE IF r = Deg(180) THEN -1000
             ELSE IF r < Deg(270) THEN -SinQ(Deg(270) - r)
             ELSE IF r = Deg(270) THEN -Tiny
             ELSE SinQ(r - Deg(270))

\* Arithmetic on finite numbers and NaN.  NaN propagates, also through a
\* factor 0; a sum is rounded; Mul and Div work on numbers scaled by 1000,
\* and a product or quotient of non-zero numbers is not zero.
Neg(a) == IF IsNaN(a) THEN NaN ELSE -a

Add(a, b) == IF IsNaN(a) \/ IsNaN(b) THEN NaN ELSE Fl(a + b)

Mul(a, b) ==
    IF IsNaN(a) \/ IsNaN(b) THEN NaN
    ELSE LET p == a * b
             m == (Abs(p) + 500) \div 1000
         IN  IF p = 0 THEN 0
             ELSE IF m = 0 THEN Sign(p) * Tiny
             ELSE Sign(p) * m

Div(a, b) ==
    IF IsNaN(a) \/ IsNaN(b) THEN NaN
    ELSE IF b = 0 THEN (IF a = 0 THEN NaN ELSE IF a > 0 THEN PosInf ELSE NegInf)
    ELSE LET m == (Abs(a) * 1000 + Abs(b) \div 2) \div Abs(b)
         IN  IF a = 0 THEN 0
             ELSE IF m = 0 THEN Sign(a) * Sign(b) * Tiny
             ELSE Sign(a) * Sign(b) * m

MathMax(a, b) == IF IsNaN(a) \/ IsNaN(b) THEN NaN ELSE IF a > b THEN a ELSE b
MathMin(a, b) == IF IsNaN(a) \/ IsNaN(b) THEN NaN ELSE IF a < b THEN a ELSE b

\* a || b on numbers: 0 and NaN are falsy.
OrElse(a, b) == IF a = 0 \/ IsNaN(a) THEN b ELSE a

\* Math.hypot of three numbers scaled by 1000: never below the magnitude of
\* a component.
MathHypot(x, y, z) ==
    IF IsNaN(x) \/ IsNaN(y) \/ IsNaN(z) THEN NaN
    ELSE LET s == x * x + y * y + z * z
         IN  CHOOSE n \in 0..4000 : n * n >= s /\ (n = 0 \/ (n - 1) * (n - 1) < s)

\* radToDeg(Math.asin(s / 1000)): the tabulated angle with the nearest sine.
MathAsin(s) ==
    IF IsNaN(s) \/ Abs(s) > 1000 THEN NaN
    ELSE LET k == CHOOSE j \in 0..12 :
                      \A i \in 0..12 :
                          \/ Abs(SinTable[j + 1] - Abs(s)) < Abs(SinTable[i + 1] - Abs(s))
                          \/ (Abs(SinTable[j + 1] - Abs(s)) = Abs(SinTable[i + 1] - Abs(s)) /\ j <= i)
         IN  Sign(s) * k * 7500

\* radToDeg(Math.atan2(y, x)): the tabulated direction nearest to (x, y), in
\* (-180, 180]; Math.atan2(0, 0) is 0.
MathAtan2(y, x) ==
    IF IsNaN(y) \/ IsNaN(x) THEN NaN
    ELSE IF y = 0 /\ x = 0 THEN 0
    ELSE LET big == IF Abs(y) > Abs(x) THEN Abs(y) ELSE Abs(x)
             s == IF big > 1000 THEN big \div 1000 + 1 ELSE 1
             yy == Sign(y) * (Abs(y) \div s)
             xx == Sign(x) * (Abs(x) \div s)
             dot(j) == yy * SinDeg(j * 7500) + xx * CosDeg(j * 7500)
             k == CHOOSE j \in -23..24 :
                      \A i \in -23..24 :
                          \/ dot(j) > dot(i)
                          \/ (dot(j) = dot(i) /\ (Abs(j) < Abs(i) \/ (Abs(j) = Abs(i) /\ j >= i)))
         IN  k * 7500

wrapHours(h) ==
    IF ~isFinite(h) THEN NaN
    ELSE LET x == JsRem(h, Hours(24))
         IN  IF x < 0 THEN Fl(x + Hours(24)) ELSE x

allFinite(alpha, beta, gamma) == isFinite(alpha) /\ isFinite(beta) /\ isFinite(gamma)

\* a1 * b1 + a2 * b2 + a3 * b3, one entry of a matrix product.
Entry(a1, b1, a2, b2, a3, b3) == Add(Add(Mul(a1, b1), Mul(a2, b2)), Mul(a3, b3))

\* Lines 57-124: the direction of the camera for three finite angles.
forward(alpha, beta, gamma) ==
    LET z == degToRad(alpha)
        x == degToRad(beta)
        y == degToRad(gamma)
        cz == MathCos(z)
        sz == MathSin(z)
        cx == MathCos(x)
        sx == MathSin(x)
        cy == MathCos(y)
        sy == MathSin(y)
        r00 == cz
        r01 == Neg(sz)
        r02 == 0
        r10 == sz
        r11 == cz
        r12 == 0
        r20 == 0
        r21 == 0
        r22 == 1000
        rx00 == 1000
        rx01 == 0
        rx02 == 0
        rx10 == 0
        rx11 == cx
        rx12 == Neg(sx)
        rx20 == 0
        rx21 == sx
        rx22 == cx
        R1_00 == Entry(r00, rx00, r01, rx10, r02, rx20)
        R1_01 == Entry(r00, rx01, r01, rx11, r02, rx21)
        R1_02 == Entry(r00, rx02, r01, rx12, r02, rx22)
        R1_10 == Entry(r10, rx00, r11, rx10, r12, rx20)
        R1_11 == Entry(r10, rx01, r11, rx11, r12, rx21)
        R1_12 == Entry(r10, rx02, r11, rx12, r12, rx22)
        R1_20 == Entry(r20, rx00, r21, rx10, r22, rx20)
        R1_21 == Entry(r20, rx01, r21, rx11, r22, rx21)
        R1_22 == Entry(r20, rx02, r21, rx12, r22, rx22)
        ry02 == sy
        ry12 == 0
        ry22 == cy
        R02 == Entry(R1_00, ry02, R1_01, ry12, R1_02, ry22)
        R12 == Entry(R1_10, ry02, R1_11, ry12, R1_12, ry22)
        R22 == Entry(R1_20, ry02, R1_21, ry12, R1_22, ry22)
        vx == Neg(R02)
        vy == Neg(R12)
        vz == Neg(R22)
        len == OrElse(MathHypot(vx, vy, vz), 1000)
        nx == Div(vx, len)
        ny == Div(vy, len)
        nz == Div(vz, len)
        altitude == radToDeg(MathAsin(nz))
        azRad == MathAtan2(nx, ny)
    IN  [altitude |-> altitude, azimuth |-> wrapDegrees(radToDeg(azRad))]

\* The function with a non-finite angle read as 0.
deviceOrientationToAltAzZeroed(alpha, beta, gamma) ==
    forward(IF isFinite(alpha) THEN alpha ELSE 0,
            IF isFinite(beta) THEN beta ELSE 0,
            IF isFinite(gamma) THEN gamma ELSE 0)

deviceOrientationToAltAz(alpha, beta, gamma) ==
    IF ~allFinite(alpha, beta, gamma) THEN [altitude |-> NaN, azimuth |-> NaN]
    ELSE forward(alpha, beta, gamma)

\* A Date is held by its UTC fields: getUTCFullYear, getUTCMonth() + 1,
\* getUTCDate, and the time of day in eighths of a day (3 hours).  Julian
\* dates are counted in eighths of a day as well.
isLeap(Y) == (Y % 4 = 0 /\ Y % 100 # 0) \/ Y % 400 = 0

daysInMonth(Y, M) ==
    IF M = 2 THEN (IF isLeap(Y) THEN 29 ELSE 28)
    ELSE IF M \in {4, 6, 9, 11} THEN 30 ELSE 31

\* date.getTime() in eighths of a day: the days from 1970-01-01 to the
\* date in the Gregorian calendar of the Date object, and the time of day.
getTime(date) ==
    LET y == IF date.M <= 2 THEN date.Y - 1 ELSE date.Y
        era == y \div 400
        yoe == y - era * 400
        mp == IF date.M > 2 THEN date.M - 3 ELSE date.M + 9
        doy == (153 * mp + 2) \div 5 + date.D - 1
        doe == yoe * 365 + yoe \div 4 - yoe \div 100 + doy
    IN  8 * (era * 146097 + doe - 719468) + date.e

dateToJulianDate(date) == getTime(date) + 8 * 2440587 + 4

toJulianDate(date) ==
    LET Y == date.Y
        M0 == date.M
        D == 8 * date.D + date.e
        A == Y \div 100
        B0 == 2 - A + A \div 4
        B == IF Y < 1582 \/ (Y = 1582 /\ (M0 < 10 \/ (M0 = 10 /\ D < 8 * 15)))
             THEN 0 ELSE B0
        M == IF M0 <= 2 THEN M0 + 12 ELSE M0
    IN  8 * ((1461 * (Y + 4716)) \div 4 + (306001 * (M + 1)) \div 10000 + B)
            + D - 8 * 1524 - 4

\* 0.06570982441908 hours per day (0.98564736629 degrees per day) times D
\* days, D given in eighths of a day since J2000.0.
siderealGain(D) ==
    LET d == D \div 8
        e == D % 8
    IN  985 * d + (6474 * d) \div 10000 + (9856 * e) \div 80

\* gmstHours of celestialCoordinates: 6.697374558 + 0.06570982441908 * D +
\* 1.00273790935 * H, with H = 3 hours per eighth of the day.
gmstHours(date) ==
    LET JD == toJulianDate(date)
        D == JD - 8 * 2451545
        GMST == 100461 + siderealGain(D) + (451232 * date.e) \div 10
    IN  wrapHours(JsRem(JsRem(GMST, Hours(24)) + Hours(24), Hours(24)))

\* gmstDegrees of what_am_i_seeing.js.  360.98564736629 * D is taken as
\* 360 * D, of which only the eighths of a turn remain, plus
\* 0.98564736629 * D; T * T * T / 38710000 is below one unit.
gmstDegrees(jd) ==
    LET D == jd - 8 * 2451545
        T == (D * 125) \div 36525                \* thousandths of a century
        gmst == 280461 + 45000 * (D % 8) + siderealGain(D)
                    + (((T * T) \div 1000) * 388) \div 1000000
    IN  wrapDegrees(gmst)

\* Lines 190-195 of altAzToRaDec: sin(dec), clamped, and dec in degrees.
declination(altitudeDeg, azimuthDeg, latitudeDeg) ==
    LET a == degToRad(altitudeDeg)
        A == degToRad(azimuthDeg)
        phi == degToRad(latitudeDeg)
        sinDec == Add(Mul(MathSin(a), MathSin(phi)),
                      Mul(Mul(MathCos(a), MathCos(phi)), MathCos(A)))
    IN  [sinDec |-> sinDec,
         dec |-> MathAsin(MathMax(-1000, MathMin(1000, sinDec)))]

\* Line 197: Math.cos(dec) || 1e-9.
guardCosDec(c) == OrElse(c, EPS_COS_DEC)

\* gmst is the value of gmstHours(date).
altAzToRaDec(altitudeDeg, azimuthDeg, latitudeDeg, longitudeDeg, gmst) ==
    LET a == degToRad(altitudeDeg)
        A == degToRad(azimuthDeg)
        phi == degToRad(latitudeDeg)
        lst == wrapHours(Add(gmst, longitudeDeg))
        sinA == MathSin(a)
        cosA == MathCos(a)
        sinPhi == MathSin(phi)
        cosPhi == MathCos(phi)
        sinAz == MathSin(A)
        d == declination(altitudeDeg, azimuthDeg, latitudeDeg)
        sinDec == d.sinDec
        dec == d.dec
        cosDec == guardCosDec(MathCos(dec))
        sinH == Div(Mul(Neg(sinAz), cosA), cosDec)
        cosH == Div(Add(sinA, Neg(Mul(sinPhi, sinDec))), Mul(cosPhi, cosDec))
        H == MathAtan2(sinH, cosH)
        H_hours == radToDeg(H)
    IN  [raHours |-> wrapHours(Add(lst, Neg(H_hours))),
         decDeg |-> radToDeg(dec),
         lstHours |-> lst]

\* getRaDecFromDevice, gmst being gmstHours(when).
getRaDecFromDevice(alpha, beta, gamma, latitudeDeg, longitudeDeg, gmst) ==
    LET altAz == deviceOrientationToAltAz(alpha, beta, gamma)
    IN  altAzToRaDec(altAz.altitude, altAz.azimuth, latitudeDeg, longitudeDeg, gmst)

\* Lines 50-51 without the clamp to [-90, 90].
decSpanNoClamp(centerDec, searchRadiusDegrees) ==
    [minDec |-> Add(centerDec, Neg(searchRadiusDegrees)),
     maxDec |-> Add(centerDec, searchRadiusDegrees)]

\* Lines 50-51: the declination bounds.
decSpan(centerDec, searchRadiusDegrees) ==
    [minDec |-> MathMax(-Deg(90), Add(centerDec, Neg(searchRadiusDegrees))),
     maxDec |-> MathMin(Deg(90), Add(centerDec, searchRadiusDegrees))]

\* Lines 54-70 without the test of the half-span against 12 hours.
raSpanNoFullCircle(centerRA, centerDec, searchRadiusDegrees) ==
    LET cosDec == MathCos(degToRad(centerDec))
    IN  IF ~isFinite(cosDec) \/ Abs(cosDec) < EPS_POLE
        THEN [minRA |-> 0, maxRA |-> Hours(24)]
        ELSE LET deltaRAHours ==
                     MathMin(Hours(12), (searchRadiusDegrees * 1000) \div Abs(cosDec))
             IN  [minRA |-> wrapHours(Add(centerRA, -deltaRAHours)),
                  maxRA |-> wrapHours(Add(centerRA, deltaRAHours))]

\* Lines 54-70: the right-ascension bounds.  12 - 1e-6 hours is less than
\* one unit below 12 hours, and deltaRAHours is a whole count of units.
raSpan(centerRA, centerDec, searchRadiusDegrees) ==
    LET cosDec == MathCos(degToRad(centerDec))
    IN  IF ~isFinite(cosDec) \/ Abs(cosDec) < EPS_POLE
        THEN [minRA |-> 0, maxRA |-> Hours(24)]
        ELSE LET deltaRAHours ==
                     MathMin(Hours(12), (searchRadiusDegrees * 1000) \div Abs(cosDec))
             IN  IF deltaRAHours >= Hours(12)
                 THEN [minRA |-> 0, maxRA |-> Hours(24)]
                 ELSE [minRA |-> wrapHours(Add(centerRA, -deltaRAHours)),
                       maxRA |-> wrapHours(Add(centerRA, deltaRAHours))]

\* calculateSearchArea from line 45 on: raDec is what getRaDecFromDevice
\* returned for the device's orientation, the position and the clock.
calculateSearchArea(raDec, searchRadiusDegrees) ==
    LET centerRA == wrapHours(raDec.raHours)
        centerDec == MathMax(-Deg(90), MathMin(Deg(90), raDec.decDeg))
        decs == decSpan(centerDec, searchRadiusDegrees)
        ras == raSpan(centerRA, centerDec, searchRadiusDegrees)
    IN  [centerRA |-> centerRA, centerDec |-> centerDec,
         minRA |-> ras.minRA, maxRA |-> ras.maxRA,
         minDec |-> decs.minDec, maxDec |-> decs.maxDec,
         searchRadiusDegrees |-> searchRadiusDegrees]

\* The two `continue` tests of searchCelestialObjects with every bound
\* exclusive.
passesBoundaryExclusive(boundary, obj) ==
    LET ra == wrapDegrees(obj.Loc1_RA)
        dec == obj.Loc2_DEC
        segs == segments(boundary.minRA, boundary.maxRA)
    IN  /\ Gt(dec, boundary.minDec) /\ Lt(dec, boundary.maxDec)
        /\ \E n \in DOMAIN segs : Gt(ra, segs[n].min) /\ Lt(ra, segs[n].max)

\* The two `continue` tests of searchCelestialObjects on a boundary of
\* calculateSearchArea: raHoursToDeg takes a count of 1/15000 hour to the
\* same count of 0.001 degree.
passesBoundary(boundary, obj) ==
    LET ra == wrapDegrees(obj.Loc1_RA)
        dec == obj.Loc2_DEC
        segs == segments(boundary.minRA, boundary.maxRA)
    IN  /\ ~(Lt(dec, boundary.minDec) \/ Gt(dec, boundary.maxDec))
        /\ \E n \in DOMAIN segs : Ge(ra, segs[n].min) /\ Le(ra, segs[n].max)

\* searchCelestialObjects(boundary, source) outside predictable mode: the
\* objects pushed by the loop, by their positions in `source`.  (The sort by
\* distance that follows reorders the list and is not modelled here.)
RECURSIVE searchBoundary(_, _, _)
searchBoundary(boundary, source, i) ==
    IF i > Len(source) THEN <<>>
    ELSE IF passesBoundary(boundary, source[i])
         THEN << [object |-> i] >> \o searchBoundary(boundary, source, i + 1)
         ELSE searchBoundary(boundary, source, i + 1)

\* Inputs of the coordinate functions.
WrapInputs ==
    {-Hours(25), -Hours(24), -7500, -2, -1, 0, 1, 7500, Hours(12),
     Hours(24) - 1, Hours(24), Hours(24) + 1, Hours(30), Hours(48), NaN}

Dates ==
    {date \in [Y : {1582, 1600, 1900, 1999, 2000, 2024, 2025}, M : 1..12,
               D : {1, 15, 28, 29, 30, 31}, e : {0, 4}] :
        date.D <= daysInMonth(date.Y, date.M)}

Pointings ==
    [raHours : {0, Hours(1), Hours(12), Hours(23) + 7500, Hours(24), NaN},
     decDeg : {-Deg(90), -Deg(89), -Deg(45), 0, Deg(45), 82500, Deg(89), Deg(90),
               Deg(100), NaN}]

CoordCalls ==
    [fn : {"wrapHours"}, h : WrapInputs]
    \cup [fn : {"wrapDegrees"}, d : WrapInputs]
    \cup [fn : {"toJulianDate"}, date : Dates]
    \cup [fn : {"gmstHours"}, date : Dates]
    \cup [fn : {"deviceOrientationToAltAz"},
          alpha : {0, Deg(45), Deg(90), Deg(180), Deg(270), NaN, PosInf, Overflow},
          beta : {-Deg(90), 0, Deg(45), Deg(90), Deg(180), NaN, NegInf, Overflow},
          gamma : {-Deg(45), 0, Deg(45), Deg(90), NaN, Overflow}]
    \cup [fn : {"altAzToRaDec"},
          altitudeDeg : {-Deg(45), 0, Deg(45), Deg(90)},
          azimuthDeg : {0, Deg(90), Deg(180), Deg(270)},
          latitudeDeg : {-Deg(90), 0, Deg(45), Deg(90)},
          longitudeDeg : {-Deg(90), 0, 7500},
          gmst : {0, 7499, Hours(18)}]
    \cup [fn : {"calculateSearchArea"}, raDec : Pointings,
          searchRadiusDegrees : {0, Deg(5), Deg(7), Deg(24), Deg(180)}]

\* What useScan passes to calculateSearchArea, the sidereal time of the
\* clock it reads, and the datasets searched with the boundary.
AreaCalls ==
    [fn : {"calculateSearchAreaFromDevice"},
     alpha : {0, Deg(180), NaN, Overflow},
     beta : {Deg(90), 127500, Deg(135), 142500, NaN},
     gamma : {0, NaN},
     latitude : {0, Deg(45), NaN},
     longitude : {0, 7500, NaN, PosInf},
     gmst : {0, Hours(18)},
     searchRadiusDegrees : {0, Deg(7), Deg(15)}]

AreaDatasets ==
    { << Obj("a", "Planeta Confirmado", 0, 82500), Obj("b", "Candidato", 359999, Deg(90)),
         Obj("c", "Falso Positivo", Deg(180), 82500), Obj("d", "Candidato", -1, 0) >>,
      << Obj("a", "Planeta Confirmado", Deg(180), 0), Obj("b", "Candidato", 277500, 82500),
         Obj("c", "Falso Positivo", Deg(360), -Deg(90)), Obj("d", "Candidato", 97500, 82500) >> }

-----------------------------------------------------------------------------
(* The catalog as a state machine *)

CatInit ==
    /\ loaded = FALSE
    /\ all = <<>>
    /\ idToObj = <<>>
    /\ regions = <<>>
    /\ byType = [t \in KnownDisposicion |-> <<>>]
    /\ argIn = <<>>
    /\ argOut = <<>>
    /\ outcome = "none"
    /\ reloaded = FALSE
    /\ window = FALSE /\ __CELESTIAL_DATA_LOADED__ = FALSE /\ evaluated = FALSE

SearchIdle ==
    /\ sArea = Area(0, 0, 0, 0, 0, 0)
    /\ sDataset = <<>>
    /\ sCalled = "no"
    /\ sResults = <<>>
    /\ sScanned = 0
    /\ predictable = FALSE /\ __SCAN_COUNT = 0 /\ calls = <<>>

\* useScan not mounted.
ScanIdle ==
    /\ variant = "js" /\ mockEnabled = FALSE
    /\ devAlpha = Null /\ devBeta = Null /\ devGamma = Null
    /\ listening = FALSE
    /\ geoLat = Null /\ geoLon = Null
    /\ state = "idle" /\ results = <<>> /\ progress = 0 /\ highlight = FALSE
    /\ pc = "idle"
    /\ closure = <<>>
    /\ ori = <<>> /\ latitude = NaN /\ longitude = NaN
    /\ elapsed = 0
    /\ geoMissing = FALSE /\ usedFallback = FALSE
    /\ calcCalled = FALSE /\ searchCalled = FALSE
    /\ thrown = "" /\ returned = <<>> /\ resultsBefore = <<>>
    /\ invocation = [n |-> 0, since |-> 0] /\ others = <<>>

\* No coordinate function called.
CoordIdle == call = [fn |-> "none"] /\ ret = [fn |-> "none"] /\ called = FALSE

LoadDataset(dataset) ==
    \E c \in {loadDataset(Catalog, dataset)} :
        /\ loaded' = c.loaded
        /\ all' = c.all
        /\ idToObj' = c.idToObj
        /\ regions' = c.regions
        /\ byType' = c.byType
        /\ argIn' = dataset
        /\ argOut' = dataset           \* the loop only reads the items
        /\ outcome' = IF c.threw THEN "threw" ELSE "returned"
        /\ reloaded' = (outcome # "none" /\ dataset = argIn)
        /\ UNCHANGED <<moduleVars, searchVars, scanVars, coordVars>>

Init == CatInit /\ SearchIdle /\ ScanIdle /\ CoordIdle

Next == \E dataset \in Datasets : LoadDataset(dataset)

Spec == Init /\ [][Next]_vars

-----------------------------------------------------------------------------
(* The celestialDataManager module as a state machine: the module is
   evaluated, and evaluated again, in one page; its users load datasets *)

\* The page before the module is first evaluated.
ModuleInit ==
    /\ window \in BOOLEAN
    /\ __CELESTIAL_DATA_LOADED__ = FALSE
    /\ evaluated = FALSE
    /\ loaded = FALSE
    /\ all = <<>>
    /\ idToObj = <<>>
    /\ regions = <<>>
    /\ byType = [t \in KnownDisposicion |-> <<>>]
    /\ argIn = <<>>
    /\ argOut = <<>>
    /\ outcome = "none"
    /\ reloaded = FALSE
    /\ SearchIdle /\ ScanIdle /\ CoordIdle

\* One evaluation of the module: `new CelestialDataManagerImpl()`, then the
\* automatic load behind the window flag.
EvaluateModule ==
    \E autoLoad \in {window /\ ~__CELESTIAL_DATA_LOADED__} :
    \E c \in {IF autoLoad THEN loadDataset(EmptyCatalog, defaultDataset) ELSE EmptyCatalog} :
        /\ loaded' = c.loaded
        /\ all' = c.all
        /\ idToObj' = c.idToObj
        /\ regions' = c.regions
        /\ byType' = c.byType
        /\ argIn' = IF autoLoad THEN defaultDataset ELSE <<>>
        /\ argOut' = argIn'
        /\ outcome' = IF autoLoad THEN "returned" ELSE "none"
        /\ reloaded' = FALSE
        /\ __CELESTIAL_DATA_LOADED__' = (__CELESTIAL_DATA_LOADED__ \/ autoLoad)
        /\ evaluated' = TRUE
        /\ UNCHANGED <<window, searchVars, scanVars, coordVars>>

\* A user of the module calls loadDataset on the exported manager.
ModuleLoadDataset(dataset) == evaluated /\ LoadDataset(dataset)

ModuleNext ==
    \/ EvaluateModule
    \/ \E dataset \in Datasets : ModuleLoadDataset(dataset)

SpecModule == ModuleInit /\ [][ModuleNext]_vars

-----------------------------------------------------------------------------
(* The search as a state machine: one call on a boundary and a dataset *)

SearchInit ==
    /\ CatInit
    /\ ScanIdle
    /\ CoordIdle
    /\ sArea \in Areas
    /\ sDataset \in SearchDatasets
    /\ sCalled = "no"
    /\ sResults = <<>>
    /\ sScanned = 0
    /\ predictable = FALSE /\ __SCAN_COUNT = 0 /\ calls = <<>>

Search ==
    /\ sCalled = "no"
    /\ LET r == searchCelestialObjects(sArea, sDataset)
       IN  /\ sCalled' = r.ended
           /\ sResults' = r.results
           /\ sScanned' = r.scanned
    /\ UNCHANGED <<sArea, sDataset, debugVars, catVars, scanVars, coordVars>>

SearchNext == Search

SpecSearch == SearchInit /\ [][SearchNext]_vars

-----------------------------------------------------------------------------
(* spatialSearch with the predictable debug mode *)

humanDirection(alpha, beta) ==
    LET a == JsRem(JsRem(alpha, Deg(360)) + Deg(360), Deg(360))
    IN  IF Gt(beta, Deg(60)) THEN "Up"
        ELSE IF a >= Deg(315) \/ a < Deg(45) THEN "North"
        ELSE IF a >= Deg(45) /\ a < Deg(135) THEN "East"
        ELSE IF a >= Deg(135) /\ a < Deg(225) THEN "South"
        ELSE "West"

\* scored.slice(0, k)
slice(list, k) == SubSeq(list, 1, IF k < 0 THEN 0 ELSE IF k > Len(list) THEN Len(list) ELSE k)

\* The loop of augmentFromDataset: the objects of the dataset not yet in the
\* seed (by id) and of the required classification ("" when none is
\* required), each with its distance from the center.
RECURSIVE scored(_, _, _, _, _, _)
scored(centerRAdeg, centerDec, dataset, seed, requiredType, i) ==
    IF i > Len(dataset) THEN <<>>
    ELSE LET obj == dataset[i]
             rest == scored(centerRAdeg, centerDec, dataset, seed, requiredType, i + 1)
             existing == \E n \in DOMAIN seed : dataset[seed[n].object].id_objeto = obj.id_objeto
         IN  IF existing \/ (requiredType # "" /\ obj.disposicion # requiredType)
             THEN rest
             ELSE << [object |-> i,
                      distanceDeg |-> angularSeparationDeg(centerRAdeg, centerDec,
                                                           obj.Loc1_RA, obj.Loc2_DEC)] >> \o rest

augmentFromDataset(centerRAdeg, centerDec, dataset, seed, n, requiredType) ==
    seed \o slice(sort(scored(centerRAdeg, centerDec, dataset, seed, requiredType, 1)),
                  n - Len(seed))

ensureAtLeast(centerRAdeg, centerDec, source, list, n) ==
    IF Len(list) >= n THEN list
    ELSE augmentFromDataset(centerRAdeg, centerDec, source, list, n, "")

\* The switch on the direction.
byDirection(direction, centerRAdeg, centerDec, source, list) ==
    LET confirmed == SelectSeq(list, LAMBDA r : source[r.object].disposicion = "Planeta Confirmado")
        cand == SelectSeq(list, LAMBDA r : source[r.object].disposicion = "Candidato")
    IN  CASE direction = "Up" ->
                IF Len(confirmed) > 0 THEN << confirmed[1] >>
                ELSE augmentFromDataset(centerRAdeg, centerDec, source, <<>>, 1, "Planeta Confirmado")
          [] direction = "North" ->
                slice(ensureAtLeast(centerRAdeg, centerDec, source, list, 3), 3)
          [] direction = "South" ->
                IF Len(cand) > 0 THEN << cand[1] >>
                ELSE augmentFromDataset(centerRAdeg, centerDec, source, <<>>, 1, "Candidato")
          [] direction = "East" -> <<>>
          [] direction = "West" ->
                slice(ensureAtLeast(centerRAdeg, centerDec, source, list, 5), 5)

\* The lucky trigger left out.
luckyNever(count, centerRAdeg, centerDec, source, list) == list

\* Lucky mode: every third scan that found nothing is given the nearest object.
lucky(count, centerRAdeg, centerDec, source, list) ==
    IF count % 3 = 0 /\ Len(list) = 0
    THEN augmentFromDataset(centerRAdeg, centerDec, source, <<>>, 1, "")
    ELSE list

\* searchCelestialObjects(searchArea, dataset, opts) with window.__SCAN_COUNT
\* at `count` and the debug switch at `debug`: the list returned and
\* window.__SCAN_COUNT after the call.
searchCelestialObjectsDebug(searchArea, dataset, opts, debug, count) ==
    LET found == sort(scan(searchArea, dataset, 1))
        centerRAdeg == raHoursToDeg(searchArea.centerRA)
        direction == humanDirection(Nullish(opts.alpha, 0), Nullish(opts.beta, 0))
    IN  IF ~debug THEN [results |-> found, count |-> count]
        ELSE [results |-> lucky(count + 1, centerRAdeg, searchArea.centerDec, dataset,
                                byDirection(direction, centerRAdeg, searchArea.centerDec,
                                            dataset, found)),
              count |-> count + 1]

MaxCalls == 3

DebugAreas == { Area(0, 0, 23500, 500, -7500, 7500), Area(12000, 0, 0, 24000, -90000, 90000) }

DebugDatasets ==
    { << Obj("a", "Planeta Confirmado", 7500, 0), Obj("b", "Candidato", 352500, 0),
         Obj("c", "Falso Positivo", 180000, 0) >>,
      << Obj("b", "Falso Positivo", 0, 7500) >> }

DebugOpts ==
    { [alpha |-> 0, beta |-> 0], [alpha |-> Deg(90), beta |-> 0], [alpha |-> Deg(180), beta |-> 0],
      [alpha |-> Deg(270), beta |-> 0], [alpha |-> Null, beta |-> Deg(90)] }

DebugInit ==
    /\ CatInit
    /\ ScanIdle
    /\ CoordIdle
    /\ sArea = Area(0, 0, 0, 0, 0, 0) /\ sDataset = <<>> /\ sCalled = "no"
    /\ sResults = <<>> /\ sScanned = 0
    /\ predictable \in BOOLEAN
    /\ __SCAN_COUNT = 0
    /\ calls = <<>>

SearchDebug(searchArea, dataset, opts) ==
    /\ Len(calls) < MaxCalls
    /\ \E r \in {searchCelestialObjectsDebug(searchArea, dataset, opts, predictable, __SCAN_COUNT)} :
          /\ __SCAN_COUNT' = r.count
          /\ calls' = Append(calls, [searchArea |-> searchArea, dataset |-> dataset,
                                     opts |-> opts, results |-> r.results])
    /\ UNCHANGED <<predictable, sArea, sDataset, sCalled, sResults, sScanned, catVars, scanVars, coordVars>>

DebugNext ==
    \E searchArea \in DebugAreas, dataset \in DebugDatasets, opts \in DebugOpts :
        SearchDebug(searchArea, dataset, opts)

SpecDebug == DebugInit /\ [][DebugNext]_vars

-----------------------------------------------------------------------------
(* The coordinate functions as a state machine: one call of one function *)

CoordInit ==
    /\ call \in CoordCalls /\ ret = [fn |-> "none"] /\ called = FALSE
    /\ CatInit /\ SearchIdle /\ ScanIdle

Return(value) ==
    /\ ~called
    /\ ret' = value
    /\ called' = TRUE
    /\ UNCHANGED <<call, catVars, searchVars, scanVars>>

WrapHours ==
    /\ call.fn = "wrapHours"
    /\ Return([value |-> wrapHours(call.h)])

WrapDegrees ==
    /\ call.fn = "wrapDegrees"
    /\ Return([value |-> wrapDegrees(call.d)])

ToJulianDate ==
    /\ call.fn = "toJulianDate"
    /\ Return([JD |-> toJulianDate(call.date)])

GmstHours ==
    /\ call.fn = "gmstHours"
    /\ Return([value |-> gmstHours(call.date)])

DeviceOrientationToAltAz ==
    /\ call.fn = "deviceOrientationToAltAz"
    /\ Return(deviceOrientationToAltAz(call.alpha, call.beta, call.gamma))

AltAzToRaDec ==
    /\ call.fn = "altAzToRaDec"
    /\ Return(altAzToRaDec(call.altitudeDeg, call.azimuthDeg, call.latitudeDeg,
                           call.longitudeDeg, call.gmst))

CalculateSearchArea ==
    /\ call.fn = "calculateSearchArea"
    /\ Return(calculateSearchArea(call.raDec, call.searchRadiusDegrees))

CoordNext ==
    \/ WrapHours
    \/ WrapDegrees
    \/ ToJulianDate
    \/ GmstHours
    \/ DeviceOrientationToAltAz
    \/ AltAzToRaDec
    \/ CalculateSearchArea

SpecCoord == CoordInit /\ [][CoordNext]_vars

-----------------------------------------------------------------------------
(* A scan's two calls as a state machine: calculateSearchArea on the device's
   orientation and position, then searchCelestialObjects on the boundary *)

AreaInit ==
    /\ call \in AreaCalls
    /\ ret = [fn |-> "none"]
    /\ called = FALSE
    /\ sDataset \in AreaDatasets
    /\ sArea = Area(0, 0, 0, 0, 0, 0)
    /\ sCalled = "no"
    /\ sResults = <<>>
    /\ sScanned = 0
    /\ predictable = FALSE /\ __SCAN_COUNT = 0 /\ calls = <<>>
    /\ CatInit /\ ScanIdle

CalculateSearchAreaFromDevice ==
    /\ call.fn = "calculateSearchAreaFromDevice"
    /\ Return(calculateSearchArea(
                  getRaDecFromDevice(call.alpha, call.beta, call.gamma,
                                     call.latitude, call.longitude, call.gmst),
                  call.searchRadiusDegrees))

SearchBoundary ==
    /\ called
    /\ sCalled = "no"
    /\ sResults' = searchBoundary(ret, sDataset, 1)
    /\ sScanned' = Len(sDataset)
    /\ sCalled' = "returned"
    /\ UNCHANGED <<sArea, sDataset, debugVars, catVars, scanVars, coordVars>>

AreaNext == CalculateSearchAreaFromDevice \/ SearchBoundary

SpecArea == AreaInit /\ [][AreaNext]_vars
-----------------------------------------------------------------------------
(* useDeviceOrientation, useGeolocation, useScan *)

\* normalize(a, b, g) of useDeviceOrientation, for a screen angle of 0.
normalize(a, b, g) ==
    LET na0 == Nullish(a, 0)
        m == Deg(360)
    IN  [alpha |-> IF NumberIsFinite(na0) THEN JsRem(JsRem(na0, m) + m, m) ELSE Null,
         beta |-> IF NumberIsFinite(b)
                  THEN (IF b > Deg(180) THEN Deg(180) ELSE IF b < -Deg(180) THEN -Deg(180) ELSE b)
                  ELSE Null,
         gamma |-> IF NumberIsFinite(g)
                   THEN (IF g > Deg(90) THEN Deg(90) ELSE IF g < -Deg(90) THEN -Deg(90) ELSE g)
                   ELSE Null]

\* The values the hooks returned at the render whose scanArea is invoked.
HookValues ==
    [mockEnabled |-> mockEnabled,
     mockAlpha |-> 0, mockBeta |-> 0, mockGamma |-> 0,
     deviceAlpha |-> devAlpha, deviceBeta |-> devBeta, deviceGamma |-> devGamma,
     geoLatitude |-> geoLat, geoLongitude |-> geoLon]

\* readOrientation() and getPosition(), on the values the closure holds.
readOrientation(c) ==
    [alpha |-> IF c.mockEnabled THEN c.mockAlpha ELSE Nullish(c.deviceAlpha, NaN),
     beta |-> IF c.mockEnabled THEN c.mockBeta ELSE Nullish(c.deviceBeta, NaN),
     gamma |-> IF c.mockEnabled THEN c.mockGamma ELSE Nullish(c.deviceGamma, NaN)]

getPosition(c) ==
    [latitude |-> Nullish(c.geoLatitude, NaN), longitude |-> Nullish(c.geoLongitude, NaN)]

orientationFiniteAlphaOnly(o) == isFinite(o.alpha)

\* isFinite(alpha) && isFinite(beta) && isFinite(gamma)
orientationFinite(o) == isFinite(o.alpha) /\ isFinite(o.beta) /\ isFinite(o.gamma)

positionFinite(p) == isFinite(p.latitude) /\ isFinite(p.longitude)

\* The location built into scanArea of the JS useScan, in model degrees.
FallbackLatitude == 20671
FallbackLongitude == -103378

OriWaitMs == 1500
OriPollMs == 100
ProcessTotalMs == 2500
ProcessStepMs == 50

\* What searchCelestialObjects may hand back to scanArea: a list of objects.
FoundLists == { <<>>, <<1>>, <<1, 2>> }

NoOrientation == [alpha |-> NaN, beta |-> NaN, gamma |-> NaN]

\* useScan mounted: no sample, no fix, no scan yet.
ScanInit ==
    /\ CoordIdle
    /\ loaded = FALSE /\ all = <<>> /\ idToObj = <<>> /\ regions = <<>>
    /\ byType = [t \in KnownDisposicion |-> <<>>]
    /\ argIn = <<>> /\ argOut = <<>> /\ outcome = "none" /\ reloaded = FALSE
    /\ window = FALSE /\ __CELESTIAL_DATA_LOADED__ = FALSE /\ evaluated = FALSE
    /\ sArea = [centerRA |-> 0, centerDec |-> 0, minRA |-> 0, maxRA |-> 0,
                minDec |-> 0, maxDec |-> 0]
    /\ sDataset = <<>> /\ sCalled = "no" /\ sResults = <<>> /\ sScanned = 0
    /\ predictable = FALSE /\ __SCAN_COUNT = 0 /\ calls = <<>>
    /\ variant \in {"js", "ts"}
    /\ mockEnabled \in BOOLEAN
    /\ devAlpha = Null /\ devBeta = Null /\ devGamma = Null
    /\ listening = FALSE
    /\ geoLat = Null /\ geoLon = Null
    /\ state = "idle" /\ results = <<>> /\ progress = 0 /\ highlight = FALSE
    /\ pc = "idle"
    /\ closure = HookValues
    /\ ori = NoOrientation /\ latitude = NaN /\ longitude = NaN
    /\ elapsed = 0
    /\ geoMissing = FALSE /\ usedFallback = FALSE
    /\ calcCalled = FALSE /\ searchCalled = FALSE
    /\ thrown = "" /\ returned = <<>> /\ resultsBefore = <<>>
    /\ invocation = [n |-> 0, since |-> 0] /\ others = <<>>

\* The catch block: setState('idle'), return [].
catchFailedScan(message) ==
    /\ state' = "idle"
    /\ thrown' = message
    /\ returned' = <<>>
    /\ pc' = "done"
    /\ UNCHANGED <<results, progress, highlight, calcCalled, searchCalled, elapsed>>

\* calculateSearchArea(...), setState('processing'), up to the first await
\* of the processing wait.
startProcessing ==
    /\ calcCalled' = TRUE
    /\ state' = "processing"
    /\ elapsed' = 0
    /\ pc' = "processing"
    /\ UNCHANGED <<results, progress, highlight, searchCalled, thrown, returned>>

\* scanArea of the JS useScan from the test of the orientation (line 96) on.
\* The wait for a GPS fix (lines 99-115) tests the closure's geo values; it
\* is never entered, latitude and longitude being finite since line 76.
jsAfterOrientationWait(o, lat, lon) ==
    IF ~orientationFinite(o)
    THEN catchFailedScan("Orientation not available. Enable Motion access.")
    ELSE IF ~(isFinite(lat) /\ isFinite(lon))
    THEN IF isFinite(closure.geoLatitude) /\ isFinite(closure.geoLongitude)
         THEN startProcessing
         ELSE catchFailedScan("Location not available. Allow location access.")
    ELSE startProcessing

\* scanArea of the JS useScan from setState('scanning') to its first await.
jsScanAreaBegin ==
    /\ closure' = HookValues
    /\ LET o == readOrientation(closure')
           p == getPosition(closure')
           lat == IF ~positionFinite(p) THEN FallbackLatitude ELSE p.latitude
           lon == IF ~positionFinite(p) THEN FallbackLongitude ELSE p.longitude
       IN  /\ ori' = o
           /\ latitude' = lat /\ longitude' = lon
           /\ geoMissing' = ~positionFinite(p)
           /\ usedFallback' = ~positionFinite(p)
           /\ resultsBefore' = results
           /\ IF ~orientationFinite(o)
              THEN /\ state' = "scanning"
                   /\ progress' = 0
                   /\ pc' = "awaitStart"
                   /\ calcCalled' = FALSE /\ searchCalled' = FALSE
                   /\ thrown' = "" /\ returned' = <<>>
                   /\ UNCHANGED <<results, highlight, elapsed>>
              ELSE /\ calcCalled' = TRUE /\ searchCalled' = FALSE
                   /\ state' = "processing"
                   /\ progress' = 0
                   /\ elapsed' = 0
                   /\ pc' = "processing"
                   /\ thrown' = "" /\ returned' = <<>>
                   /\ UNCHANGED <<results, highlight>>

\* scanArea of the JS useScan is invoked while no invocation is in progress.
JsScanStart ==
    /\ variant = "js" /\ pc \in {"idle", "done"}
    /\ jsScanAreaBegin
    /\ UNCHANGED <<sensorVars, rescanVars, catVars, searchVars, coordVars>>

\* await device.start() resolves: the listener is registered unless the
\* permission was refused or the API is missing.
JsAwaitStart ==
    /\ pc = "awaitStart"
    /\ \E granted \in BOOLEAN : listening' = (listening \/ granted)
    /\ pc' = "oriWait"
    /\ elapsed' = 0
    /\ UNCHANGED <<variant, mockEnabled, devAlpha, devBeta, devGamma, geoLat, geoLon,
                   hookVars, closure, ori, latitude, longitude, traceVars, rescanVars, catVars, searchVars, coordVars>>

\* One turn of the wait for a first sample: the 100 ms timer fires and
\* readOrientation() is read again.
JsOrientationPoll ==
    /\ pc = "oriWait"
    /\ LET o == readOrientation(closure)
           now == elapsed + OriPollMs
           got == orientationFinite(o)
           o1 == IF got THEN o ELSE ori
       IN  /\ ori' = o1
           /\ IF ~got /\ now < OriWaitMs
              THEN /\ elapsed' = now
                   /\ UNCHANGED <<pc, hookVars, calcCalled, searchCalled, thrown, returned>>
              ELSE jsAfterOrientationWait(o1, latitude, longitude)
    /\ UNCHANGED <<sensorVars, closure, latitude, longitude, geoMissing, usedFallback,
                   resultsBefore, rescanVars, catVars, searchVars, coordVars>>

\* One turn of the processing wait: the 50 ms timer fires; after 2.5 s the
\* search runs and the scan completes.
JsProcessingTick ==
    /\ variant = "js" /\ pc = "processing"
    /\ LET now == elapsed + ProcessStepMs
           pct == IF (now * 100) \div ProcessTotalMs > 100 THEN 100
                  ELSE (now * 100) \div ProcessTotalMs
       IN  IF now < ProcessTotalMs
           THEN /\ elapsed' = now
                /\ progress' = pct
                /\ UNCHANGED <<state, results, highlight, pc, searchCalled, returned>>
           ELSE \E found \in FoundLists :
                /\ elapsed' = now
                /\ progress' = 100
                /\ searchCalled' = TRUE
                /\ results' = found
                /\ state' = "complete"
                /\ highlight' = (Len(found) > 0 \/ highlight)
                /\ returned' = found
                /\ pc' = "done"
    /\ UNCHANGED <<sensorVars, closure, ori, latitude, longitude, geoMissing,
                   usedFallback, calcCalled, thrown, resultsBefore, rescanVars, catVars, searchVars, coordVars>>

\* setTimeout(() => setHighlight(false), 800)
HighlightOff ==
    /\ highlight
    /\ highlight' = FALSE
    /\ UNCHANGED <<sensorVars, state, results, progress, callVars, traceVars, rescanVars, catVars, searchVars, coordVars>>

\* scanArea of the TS useScan is invoked: from setState('scanning') to its
\* only await.
TsScanStart ==
    /\ variant = "ts" /\ pc \in {"idle", "done"}
    /\ closure' = HookValues
    /\ LET o == readOrientation(closure')
           p == getPosition(closure')
       IN  /\ ori' = o
           /\ latitude' = p.latitude /\ longitude' = p.longitude
           /\ geoMissing' = ~positionFinite(p)
           /\ usedFallback' = FALSE
           /\ resultsBefore' = results
           /\ searchCalled' = FALSE
           /\ IF ~orientationFinite(o) \/ ~positionFinite(p)
              THEN /\ state' = "idle"
                   /\ thrown' = IF ~orientationFinite(o)
                                THEN "Orientation not available. Enable Motion access."
                                ELSE "Location not available. Allow location access."
                   /\ calcCalled' = FALSE
                   /\ returned' = <<>>
                   /\ pc' = "done"
              ELSE /\ state' = "processing"
                   /\ thrown' = ""
                   /\ calcCalled' = TRUE
                   /\ returned' = <<>>
                   /\ pc' = "processing"
    /\ UNCHANGED <<sensorVars, results, progress, highlight, elapsed, rescanVars, catVars, searchVars, coordVars>>

\* The 2-3 s delay of the TS useScan is over: the search runs and the scan
\* completes.
TsFinish ==
    /\ variant = "ts" /\ pc = "processing"
    /\ \E found \in FoundLists :
         /\ searchCalled' = TRUE
         /\ results' = found
         /\ state' = "complete"
         /\ returned' = found
         /\ pc' = "done"
    /\ UNCHANGED <<sensorVars, progress, highlight, closure, ori, latitude, longitude, elapsed,
                   geoMissing, usedFallback, calcCalled, thrown, resultsBefore,
                   rescanVars, catVars, searchVars, coordVars>>

\* A deviceorientation event reaches onOrientation.
OrientationEvents == { <<Null, Null, Null>>, <<0, 90000, 0>>, <<-90000, 200000, 0>> }

OnOrientation(e) ==
    /\ listening
    /\ LET n == normalize(e[1], e[2], e[3])
       IN  /\ devAlpha' = n.alpha
           /\ devBeta' = n.beta
           /\ devGamma' = n.gamma
    /\ UNCHANGED <<variant, mockEnabled, listening, geoLat, geoLon, hookVars, callVars,
                   traceVars, rescanVars, catVars, searchVars, coordVars>>

\* enableMotion: the user asks for motion access and device.start() succeeds.
EnableMotion ==
    /\ ~listening
    /\ listening' = TRUE
    /\ UNCHANGED <<variant, mockEnabled, devAlpha, devBeta, devGamma, geoLat, geoLon,
                   hookVars, callVars, traceVars, rescanVars, catVars, searchVars, coordVars>>

\* handlePositionSuccess: a position fix arrives.
PositionSuccess ==
    /\ geoLat = Null
    /\ geoLat' = 19000 /\ geoLon' = -99000
    /\ UNCHANGED <<variant, mockEnabled, devAlpha, devBeta, devGamma, listening,
                   hookVars, callVars, traceVars, rescanVars, catVars, searchVars, coordVars>>

ScanNext ==
    \/ JsScanStart
    \/ JsAwaitStart
    \/ JsOrientationPoll
    \/ JsProcessingTick
    \/ HighlightOff
    \/ TsScanStart
    \/ TsFinish
    \/ \E e \in OrientationEvents : OnOrientation(e)
    \/ EnableMotion
    \/ PositionSuccess

SpecScan == ScanInit /\ [][ScanNext]_vars

-----------------------------------------------------------------------------
(* scanArea invoked again while an invocation is awaiting: the Space key and
   the scan button of the JS page both call it, whatever the scan state *)

MaxScans == 2

\* The variables of the invocation that is running, as they are kept while
\* another invocation runs.
Suspended ==
    [n |-> invocation.n, since |-> invocation.since,
     pc |-> pc, closure |-> closure, ori |-> ori,
     latitude |-> latitude, longitude |-> longitude, elapsed |-> elapsed,
     geoMissing |-> geoMissing, usedFallback |-> usedFallback,
     calcCalled |-> calcCalled, searchCalled |-> searchCalled,
     thrown |-> thrown, returned |-> returned, resultsBefore |-> resultsBefore]

\* The invocations begun so far.
Invocations ==
    { others[k] : k \in DOMAIN others } \cup (IF invocation.n = 0 THEN {} ELSE {Suspended})

Awaiting(r) == r.pc \in {"awaitStart", "oriWait", "processing"}

\* The time in ms of an invocation's last step (the processing wait is
\* entered when the invocation begins, the closure's orientation being the
\* same at every poll), the time at which the promise or timer it awaits
\* resolves, and the time reached.  Timers of equal delay fire in the order
\* they were set.
LastStepAt(r) == r.since + (IF r.pc = "awaitStart" THEN 0 ELSE r.elapsed)

DueAt(r) ==
    LastStepAt(r) + (CASE r.pc = "oriWait" -> OriPollMs
                       [] r.pc = "processing" -> ProcessStepMs
                       [] OTHER -> 0)

Now == IF Invocations = {} THEN 0
       ELSE CHOOSE t \in { LastStepAt(r) : r \in Invocations } :
                \A r \in Invocations : LastStepAt(r) <= t

\* r's continuation is the next to run.
Due(r) ==
    /\ Awaiting(r)
    /\ \A q \in Invocations :
          Awaiting(q) => \/ DueAt(r) < DueAt(q)
                         \/ DueAt(r) = DueAt(q) /\ r.n <= q.n

RescanInit == ScanInit /\ variant = "js"

\* keydown Space, or onScan of the scan button: scanArea() is called; the
\* invocation that was running, if any, stays suspended at its await.
ScanAreaAgain ==
    /\ Cardinality(Invocations) < MaxScans
    /\ others' = IF invocation.n = 0 THEN others ELSE Append(others, Suspended)
    /\ invocation' = [n |-> Cardinality(Invocations) + 1, since |-> Now]
    /\ jsScanAreaBegin
    /\ UNCHANGED <<sensorVars, catVars, searchVars, coordVars>>

\* The event loop runs the continuation of another invocation.
Resume(k) ==
    /\ Due(others[k])
    /\ others' = [others EXCEPT ![k] = Suspended]
    /\ invocation' = [n |-> others[k].n, since |-> others[k].since]
    /\ pc' = others[k].pc /\ closure' = others[k].closure /\ ori' = others[k].ori
    /\ latitude' = others[k].latitude /\ longitude' = others[k].longitude
    /\ elapsed' = others[k].elapsed
    /\ geoMissing' = others[k].geoMissing /\ usedFallback' = others[k].usedFallback
    /\ calcCalled' = others[k].calcCalled /\ searchCalled' = others[k].searchCalled
    /\ thrown' = others[k].thrown /\ returned' = others[k].returned
    /\ resultsBefore' = others[k].resultsBefore
    /\ UNCHANGED <<sensorVars, hookVars, catVars, searchVars, coordVars>>

\* The running invocation's await resolves when it is the next one due.
ResolveStart == Due(Suspended) /\ JsAwaitStart
PollTimer == Due(Suspended) /\ JsOrientationPoll
ProcessingTimer == Due(Suspended) /\ JsProcessingTick

RescanNext ==
    \/ ScanAreaAgain
    \/ \E k \in DOMAIN others : Resume(k)
    \/ ResolveStart
    \/ PollTimer
    \/ ProcessingTimer
    \/ HighlightOff
    \/ \E e \in OrientationEvents : OnOrientation(e)
    \/ EnableMotion

SpecRescan == RescanInit /\ [][RescanNext]_vars

-----------------------------------------------------------------------------
(* Properties of the catalog *)

Refs == 1..Len(all)
IndexSeq(n) == [i \in 1..n |-> i]
SeqRange(s) == { s[i] : i \in DOMAIN s }

\* How many entries of the region buckets (of the classification buckets)
\* hold the reference r.
RegionEntries(r) ==
    Cardinality({ e \in UNION { {<<k, i>> : i \in DOMAIN regions[k]} : k \in DOMAIN regions } :
                    regions[e[1]][e[2]] = r })
TypeEntries(r) ==
    Cardinality({ e \in UNION { {<<t, i>> : i \in DOMAIN byType[t]} : t \in DOMAIN byType } :
                    byType[e[1]][e[2]] = r })

IndexedRefs ==
    UNION { SeqRange(regions[k]) : k \in DOMAIN regions }
    \cup UNION { SeqRange(byType[t]) : t \in DOMAIN byType }
    \cup { idToObj[id] : id \in DOMAIN idToObj }

UniqueIds(s) == \A i, j \in DOMAIN s : s[i].id_objeto = s[j].id_objeto => i = j

IndexInvariant ==
    /\ \A r \in Refs :
          /\ RegionEntries(r) = 1
          /\ TypeEntries(r) = 1
          /\ getObjectById(all[r].id_objeto) = r
    /\ IndexedRefs \subseteq Refs

\* C1 as stated: after a loadDataset that returned (every record of a known
\* classification), every object of getAllObjects() is in exactly one region
\* bucket and one classification bucket, getObjectById of its id is that
\* object, and the indices hold nothing that is not in getAllObjects().
C1_AnyDataset == outcome = "returned" => IndexInvariant

\* C1 amended: the same, for a dataset whose id_objeto values are pairwise
\* distinct.
C1_UniqueIds == (outcome = "returned" /\ UniqueIds(argIn)) => IndexInvariant

C1_Witness ==
    /\ outcome = "returned" /\ UniqueIds(argIn) /\ Len(all) = 3
    /\ \E k \in DOMAIN regions : Len(regions[k]) = 2
    /\ \E t \in DOMAIN byType : Len(byType[t]) = 2

ObservableCatalog == <<loaded, all, idToObj, byType, regions>>

\* The observable state describes exactly the dataset d.
CatalogDescribes(d) ==
    /\ loaded
    /\ Len(all) = Len(d)
    /\ \A i \in DOMAIN d : /\ all[i].id_objeto = d[i].id_objeto
                           /\ all[i].disposicion = d[i].disposicion
    /\ \A r \in Refs : RegionEntries(r) = 1 /\ TypeEntries(r) = 1
    /\ DOMAIN idToObj = { all[r].id_objeto : r \in Refs }
    /\ \A id \in DOMAIN idToObj : idToObj[id] \in Refs /\ all[idToObj[id]].id_objeto = id
    /\ IndexedRefs \subseteq Refs

\* C2: every loadDataset call, returned or failed, leaves the observable
\* catalog either as it was before the call or describing exactly the
\* dataset passed: never empty, a prefix or a mixture.
C2_AtomicLoad ==
    [][ObservableCatalog' = ObservableCatalog \/ CatalogDescribes(argIn)']_vars

\* The mathematical wrap into [0,360) and clamp into [-90,90].
WrapInto360(ra) == ra % Deg(360)
ClampInto90(dec) == IF dec > Deg(90) THEN Deg(90) ELSE IF dec < -Deg(90) THEN -Deg(90) ELSE dec

\* C8: after loadDataset(d), getAllObjects() has the length and order of d,
\* its i-th object has Loc1_RA of d[i] wrapped into [0,360), Loc2_DEC of d[i]
\* clamped into [-90,90] and every other field of d[i]; d is not modified.
C8_Normalized ==
    outcome = "returned" =>
        /\ Len(getAllObjects) = Len(argIn)
        /\ \A i \in DOMAIN argIn :
              /\ getAllObjects[i].Loc1_RA = WrapInto360(argIn[i].Loc1_RA)
              /\ getAllObjects[i].Loc1_RA >= 0 /\ getAllObjects[i].Loc1_RA < Deg(360)
              /\ getAllObjects[i].Loc2_DEC = ClampInto90(argIn[i].Loc2_DEC)
              /\ getAllObjects[i].id_objeto = argIn[i].id_objeto
              /\ getAllObjects[i].disposicion = argIn[i].disposicion
              /\ getAllObjects[i].radio_planeta = argIn[i].radio_planeta
        /\ argOut = argIn

QueryPoints ==
    { <<0, 90000>>, <<7500, 0>>, <<367500, 0>>, <<-1, 90000>>, <<352500, 0>>,
      <<-7500, 0>>, <<100000, 50000>>, <<0, 97500>>, <<5000, -90000>>, <<9999, 9999>> }

\* The catalog filtered linearly on the bucket of the query point.
BruteForceRegion(raDeg, decDeg) ==
    SelectSeq(IndexSeq(Len(getAllObjects)),
              LAMBDA i : regionKey(getAllObjects[i].Loc1_RA, getAllObjects[i].Loc2_DEC)
                           = regionKey(raDeg, decDeg))

\* C9: for every loaded dataset and query point, _getRegion returns the
\* objects of getAllObjects(), in catalog order, whose normalized position
\* has the region key of the query point (the empty sequence if none).
C9_RegionIsLinearFilter ==
    isLoaded => \A q \in QueryPoints : _getRegion(q[1], q[2]) = BruteForceRegion(q[1], q[2])

C9_Witness ==
    /\ isLoaded /\ Len(all) = 3
    /\ \E q \in QueryPoints : Len(_getRegion(q[1], q[2])) = 2
    /\ \E q \in QueryPoints : _getRegion(q[1], q[2]) = <<>>

OnGrid(key) == key[1] \in 0..35 /\ key[2] \in 0..17

\* C10: every region key lies on the 36x18 grid (RA bin 0..35, Dec bin
\* 0..17), for every ra and every dec in [-90,90], dec = 90 included, so the
\* index never has more than 36*18 buckets.
C10_KeysOnGrid ==
    /\ \A key \in DOMAIN regions : OnGrid(key)
    /\ \A q \in QueryPoints : (q[2] >= -Deg(90) /\ q[2] <= Deg(90)) => OnGrid(regionKey(q[1], q[2]))

\* C11: a loadDataset call given the dataset of the call before it leaves
\* the observable catalog as that call left it; and after any call that
\* returned the catalog holds the records of its dataset and no others,
\* each indexed once.
C11_Idempotent ==
    [][/\ (outcome # "none" /\ argIn' = argIn) => ObservableCatalog' = ObservableCatalog
       /\ outcome' = "returned" =>
             /\ Len(all') = Len(argIn')
             /\ \A i \in DOMAIN argIn' : all'[i].id_objeto = argIn'[i].id_objeto
             /\ (\A r \in Refs : RegionEntries(r) = 1 /\ TypeEntries(r) = 1)']_vars

\* The same three records loaded twice in a row, after another dataset.
C11_Witness ==
    /\ reloaded /\ outcome = "returned" /\ Len(all) = 3
    /\ \E k \in DOMAIN regions : Len(regions[k]) = 2

-----------------------------------------------------------------------------
(* Properties of the search *)

\* The boundary test of C3 on a dataset object: dec within [minDec, maxDec]
\* and the wrapped ra within [15*minRA, 15*maxRA], or, when minRA > maxRA,
\* within [15*minRA, 360] or [0, 15*maxRA]; all bounds inclusive.
InBoundary(a, obj) ==
    LET ra == wrapDegrees(obj.Loc1_RA)
        lo == 15 * a.minRA
        hi == 15 * a.maxRA
    IN  /\ a.minDec <= obj.Loc2_DEC /\ obj.Loc2_DEC <= a.maxDec
        /\ IF a.minRA <= a.maxRA
           THEN lo <= ra /\ ra <= hi
           ELSE (lo <= ra /\ ra <= Deg(360)) \/ (0 <= ra /\ ra <= hi)

ResultsFor(i) == { n \in DOMAIN sResults : sResults[n].object = i }

\* C3: for a boundary of finite fields the search returns exactly the objects
\* of the dataset inside the boundary, one result each, and none for any
\* other object.
C3_ExactFilter ==
    (sCalled = "returned" /\ FiniteArea(sArea)) =>
        /\ \A n \in DOMAIN sResults : sResults[n].object \in DOMAIN sDataset
        /\ \A i \in DOMAIN sDataset :
              Cardinality(ResultsFor(i)) = IF InBoundary(sArea, sDataset[i]) THEN 1 ELSE 0

\* A boundary across RA 0 that returned an object from each side of RA 0
\* and left out an object at a declination inside the boundary.
C3_Witness ==
    /\ sCalled = "returned" /\ FiniteArea(sArea) /\ sArea.minRA > sArea.maxRA
    /\ \E n \in DOMAIN sResults : wrapDegrees(sDataset[sResults[n].object].Loc1_RA) = 352500
    /\ \E n \in DOMAIN sResults : wrapDegrees(sDataset[sResults[n].object].Loc1_RA) = 7500
    /\ \E i \in DOMAIN sDataset :
          /\ ResultsFor(i) = {}
          /\ sArea.minDec <= sDataset[i].Loc2_DEC /\ sDataset[i].Loc2_DEC <= sArea.maxDec

\* C4: the list returned is ascending in distanceDeg, and results of equal
\* distanceDeg keep the order of their objects in the dataset.
C4_SortedStable ==
    (sCalled = "returned" /\ FiniteArea(sArea)) =>
        \A m, n \in DOMAIN sResults :
            m < n => /\ sResults[m].distanceDeg <= sResults[n].distanceDeg
                     /\ sResults[m].distanceDeg = sResults[n].distanceDeg
                            => sResults[m].object < sResults[n].object

\* Three results, the nearest of them later in the dataset than the other
\* two, which are at one distance.
C4_Witness ==
    /\ sCalled = "returned" /\ FiniteArea(sArea) /\ Len(sResults) = 3
    /\ sResults[1].distanceDeg < sResults[2].distanceDeg
    /\ sResults[2].distanceDeg = sResults[3].distanceDeg
    /\ sResults[1].object > sResults[3].object

\* C5: a call whose boundary has a non-finite field ends in a validation
\* error: it returns no list and examines no object.
C5_FailFast ==
    (sCalled # "no" /\ ~FiniteArea(sArea)) =>
        (sCalled = "error" /\ sResults = <<>> /\ sScanned = 0)

\* The objects of the dataset searched that lie at the center of the
\* boundary, inside the boundary.
AtCenter ==
    { i \in DOMAIN sDataset : /\ sDataset[i].Loc1_RA = 15 * sArea.centerRA
                              /\ sDataset[i].Loc2_DEC = sArea.centerDec
                              /\ InBoundary(sArea, sDataset[i]) }

\* C15: an object of the dataset at the center of the boundary is returned
\* with distanceDeg = 0, and every result before it has distance 0 too.
C15_SelfMatchFirst ==
    (sCalled = "returned" /\ FiniteArea(sArea)) =>
        \A i \in AtCenter :
            \E n \in DOMAIN sResults :
                /\ sResults[n].object = i
                /\ sResults[n].distanceDeg = 0
                /\ \A m \in 1..(n - 1) : sResults[m].distanceDeg = 0

\* C12: two calls of searchCelestialObjects with the same boundary, dataset
\* and options return equal lists whatever calls were made in between, and
\* no call changes window.__SCAN_COUNT.
C12_Deterministic ==
    /\ \A i, j \in DOMAIN calls :
          (/\ calls[i].searchArea = calls[j].searchArea
           /\ calls[i].dataset = calls[j].dataset
           /\ calls[i].opts = calls[j].opts) => calls[i].results = calls[j].results
    /\ __SCAN_COUNT = 0

Direction(c) == humanDirection(Nullish(c.opts.alpha, 0), Nullish(c.opts.beta, 0))
FoundBy(c) == sort(scan(c.searchArea, c.dataset, 1))
Confirmed(c, r) == c.dataset[r.object].disposicion = "Planeta Confirmado"

\* C24: in predictable mode with direction 'Up' searchCelestialObjects
\* returns exactly one result for every dataset and boundary, and that
\* result is a 'Planeta Confirmado' object whenever the in-boundary results
\* contain one.
C24_UpReturnsOne ==
    \A i \in DOMAIN calls :
        (predictable /\ Direction(calls[i]) = "Up") =>
            /\ Len(calls[i].results) = 1
            /\ (\E n \in DOMAIN FoundBy(calls[i]) : Confirmed(calls[i], FoundBy(calls[i])[n]))
                   => Confirmed(calls[i], calls[i].results[1])

\* C25: in predictable mode every call of searchCelestialObjects adds
\* exactly 1 to window.__SCAN_COUNT, and every call that brings it to a
\* multiple of 3 returns at least one result when its dataset is not empty,
\* whatever the direction and the boundary.
C25_LuckyThird ==
    [][predictable =>
          /\ __SCAN_COUNT' = __SCAN_COUNT + 1
          /\ (__SCAN_COUNT' % 3 = 0 /\ calls'[Len(calls')].dataset # <<>>)
                 => Len(calls'[Len(calls')].results) >= 1]_vars

C25_Witness ==
    /\ predictable /\ __SCAN_COUNT = 3 /\ Len(calls) = 3
    /\ Direction(calls[3]) = "East"
    /\ calls[3].searchArea = Area(0, 0, 23500, 500, -7500, 7500)
    /\ Len(calls[3].results) = 1

-----------------------------------------------------------------------------
(* Properties of the scan *)

OrientationUnavailable(o) == ~isFinite(o.alpha) \/ ~isFinite(o.beta) \/ ~isFinite(o.gamma)

\* C6: an invocation of scanArea whose orientation is non-finite, while it
\* waits for a first sample and after the wait, calls neither
\* calculateSearchArea nor searchCelestialObjects, never shows 'processing'
\* or 'complete', leaves results as they were, and ends in 'idle' resolving
\* to the empty list.
C6_NoOrientationNoScan ==
    (pc # "idle" /\ OrientationUnavailable(ori)) =>
        /\ ~calcCalled /\ ~searchCalled
        /\ state \in {"scanning", "idle"}
        /\ results = resultsBefore
        /\ pc = "done" => (state = "idle" /\ returned = <<>>)

\* A scan that failed for want of an orientation, after an earlier scan had
\* found objects.
C6_Witness ==
    /\ pc = "done" /\ OrientationUnavailable(ori)
    /\ thrown = "Orientation not available. Enable Motion access."
    /\ resultsBefore # <<>> /\ state = "idle"

\* C7: an invocation of scanArea that finds the geolocation unavailable (the
\* orientation being available) fails with 'Location not available': it
\* takes no built-in location, builds no boundary, runs no search, and ends
\* in 'idle' resolving to the empty list.
C7_NoLocationNoScan ==
    (pc # "idle" /\ geoMissing /\ ~OrientationUnavailable(ori)) =>
        /\ ~usedFallback
        /\ ~calcCalled /\ ~searchCalled
        /\ pc = "done"
        /\ state = "idle" /\ returned = <<>>
        /\ thrown = "Location not available. Allow location access."

\* C22: useDeviceOrientation never turns an unavailable angle into a number:
\* after a deviceorientation event whose alpha is null the alpha the hook
\* exposes is null, and the same for beta and gamma.
C22_NullStaysNull ==
    [][\A e \in OrientationEvents :
          OnOrientation(e) =>
              /\ e[1] = Null => devAlpha' = Null
              /\ e[2] = Null => devBeta' = Null
              /\ e[3] = Null => devGamma' = Null]_vars

\* C23: in a browser, after every evaluation of the celestialDataManager
\* module in one window session, the first and any later one that creates a
\* new manager, the exported manager holds the default dataset: isLoaded()
\* is true and getAllObjects() is not empty.
C23_LoadedAfterEveryEvaluation ==
    [][EvaluateModule /\ window => isLoaded' /\ getAllObjects' # <<>>]_vars

-----------------------------------------------------------------------------
(* Properties of the coordinate functions *)

Max2(a, b) == IF a > b THEN a ELSE b
Min2(a, b) == IF a < b THEN a ELSE b

\* A call of calculateSearchArea on a finite pointing has returned.
BoundaryBuilt ==
    /\ called
    /\ call.fn = "calculateSearchArea"
    /\ isFinite(call.raDec.raHours)
    /\ isFinite(call.raDec.decDeg)

\* min(12, (radius / |cos(centerDec)|) / 15) hours.
halfSpanHours(centerDec, radius) ==
    Min2(Hours(12), (radius * 1000) \div Abs(MathCos(centerDec)))

\* x brought into the day, and equality up to the rounding of one sum.
wrap24(x) == x % Hours(24)
Rounded(a, b) == Abs(a - b) <= 1

FullCircleDue(centerDec, radius) ==
    \/ Abs(MathCos(centerDec)) < EPS_POLE
    \/ halfSpanHours(centerDec, radius) >= Hours(12)

nextDay(date) ==
    IF date.D < daysInMonth(date.Y, date.M) THEN [date EXCEPT !.D = date.D + 1]
    ELSE IF date.M < 12 THEN [date EXCEPT !.M = date.M + 1, !.D = 1]
    ELSE [date EXCEPT !.Y = date.Y + 1, !.M = 1, !.D = 1]

Gregorian(date) ==
    \/ date.Y > 1582
    \/ date.Y = 1582 /\ (date.M > 10 \/ (date.M = 10 /\ date.D >= 15))

\* C16: for every UTC date on or after 1582-10-15, in every month,
\* toJulianDate returns the standard Julian Date, the value of
\* dateToJulianDate (milliseconds since the Unix epoch / 86400000 +
\* 2440587.5), and it grows by exactly one per calendar day, also across
\* the end of a month and of a year.
C16_StandardJulianDate ==
    (called /\ call.fn = "toJulianDate" /\ Gregorian(call.date)) =>
        /\ ret.JD = dateToJulianDate(call.date)
        /\ toJulianDate(nextDay(call.date)) = ret.JD + 8

InDay(h) == 0 <= h /\ h < Hours(24)

\* C17: for every finite input wrapHours returns a value in [0, 24) and
\* wrapDegrees a value in [0, 360); hence the local sidereal time and raHours
\* of altAzToRaDec and the centerRA of a built boundary are in [0, 24), and
\* decDeg is in [-90, 90].
C17_Ranges ==
    /\ (called /\ call.fn = "wrapHours" /\ isFinite(call.h)) => InDay(ret.value)
    /\ (called /\ call.fn = "wrapDegrees" /\ isFinite(call.d))
          => (0 <= ret.value /\ ret.value < Deg(360))
    /\ (called /\ call.fn = "altAzToRaDec")
          => /\ InDay(ret.lstHours)
             /\ InDay(ret.raHours)
             /\ -Deg(90) <= ret.decDeg /\ ret.decDeg <= Deg(90)
    /\ BoundaryBuilt => InDay(ret.centerRA)

NonFinite(x) == x \in {NaN, PosInf, NegInf}
Unavailable(r) == IsNaN(r.altitude) /\ IsNaN(r.azimuth)

\* deviceOrientationToAltAz has returned.
AltAzReturned == called /\ call.fn = "deviceOrientationToAltAz"

\* C18 as stated: the result is {NaN, NaN} exactly when one of alpha, beta,
\* gamma is non-finite, and three finite inputs give a finite altitude and a
\* finite azimuth.
C18_NaNIffNonFinite ==
    AltAzReturned =>
        LET nonFinite == NonFinite(call.alpha) \/ NonFinite(call.beta) \/ NonFinite(call.gamma)
        IN  /\ Unavailable(ret) <=> nonFinite
            /\ ~nonFinite => (~NonFinite(ret.altitude) /\ ~NonFinite(ret.azimuth))

\* An angle whose product with Math.PI is finite.
Convertible(x) == NonFinite(x) \/ Abs(x) < Overflow

\* C18, amended: the same for inputs whose conversion to radians does not
\* overflow.
C18_NaNIffNonFiniteConvertible ==
    (/\ AltAzReturned
     /\ Convertible(call.alpha) /\ Convertible(call.beta) /\ Convertible(call.gamma)) =>
        LET nonFinite == NonFinite(call.alpha) \/ NonFinite(call.beta) \/ NonFinite(call.gamma)
        IN  /\ Unavailable(ret) <=> nonFinite
            /\ ~nonFinite => (~NonFinite(ret.altitude) /\ ~NonFinite(ret.azimuth))

\* A call with gamma alone non-finite returned the NaN pair.
C18_Witness ==
    /\ AltAzReturned
    /\ call.alpha = Deg(90) /\ call.beta = Deg(45) /\ IsNaN(call.gamma)
    /\ Unavailable(ret)

\* C19: held upright (beta = 90, gamma = 0) with alpha 0, 90, 180 or 270 the
\* device points at altitude 0 and azimuth alpha: alpha is the compass
\* heading from North towards East.
C19_UprightAzimuthIsAlpha ==
    (/\ AltAzReturned
     /\ call.alpha \in {0, Deg(90), Deg(180), Deg(270)}
     /\ call.beta = Deg(90) /\ call.gamma = 0) =>
        /\ ret.altitude = 0
        /\ ret.azimuth = call.alpha

\* C20: in altAzToRaDec a computed cosDec with |cosDec| < 1e-9 is replaced,
\* before the divisions, by an epsilon of magnitude 1e-9 with the sign of
\* cosDec; a cosDec with |cosDec| >= 1e-9 is used unchanged; no divisor is
\* zero for finite altitude, azimuth and latitude.
C20_SignedEpsilon ==
    (called /\ call.fn = "altAzToRaDec") =>
        LET computed == MathCos(declination(call.altitudeDeg, call.azimuthDeg,
                                            call.latitudeDeg).dec)
            cosDec == guardCosDec(computed)
        IN  /\ Abs(computed) < EPS_COS_DEC =>
                  /\ Abs(cosDec) = EPS_COS_DEC
                  /\ computed # 0 => Sign(cosDec) = Sign(computed)
            /\ Abs(computed) >= EPS_COS_DEC => cosDec = computed
            /\ cosDec # 0
            /\ Mul(MathCos(degToRad(call.latitudeDeg)), cosDec) # 0

\* The distance of two hour angles around the day.
HourGap(a, b) == Min2(Abs(a - b), Hours(24) - Abs(a - b))

\* C21: for every UTC date and time, at every hour of the day and in every
\* month, gmstHours(date) agrees with gmstDegrees(dateToJulianDate(date)) / 15
\* modulo 24 hours to within 0.01 hour.
C21_SiderealTimesAgree ==
    (called /\ call.fn = "gmstHours" /\ Gregorian(call.date)) =>
        HourGap(ret.value, gmstDegrees(dateToJulianDate(call.date))) <= 150

-----------------------------------------------------------------------------
(* Properties of a boundary searched *)

\* The boundary of the call was searched.
Searched == called /\ sCalled = "returned"

Returned(i) == \E n \in DOMAIN sResults : sResults[n].object = i

FullCircle == ret.minRA = 0 /\ ret.maxRA = Hours(24)

\* C26: when calculateSearchArea takes the full-circle branch (minRA = 0,
\* maxRA = 24), searchCelestialObjects with that boundary returns every
\* dataset object whose declination is within [minDec, maxDec], whatever its
\* Loc1_RA, 0 and values just below 360 included.
C26_FullCircleAcceptsEveryRA ==
    (Searched /\ FullCircle) =>
        \A i \in DOMAIN sDataset :
            (Le(ret.minDec, sDataset[i].Loc2_DEC) /\ Le(sDataset[i].Loc2_DEC, ret.maxDec))
                => Returned(i)

\* A full circle around the pole with radius 15 returned the objects at
\* RA 0, 359.999 and 180 and left out the one on the equator.
C26_Witness ==
    /\ Searched /\ FullCircle
    /\ ret.centerDec = Deg(90) /\ ret.minDec = Deg(75)
    /\ sDataset[2].Loc1_RA = 359999
    /\ Returned(1) /\ Returned(2) /\ Returned(3) /\ ~Returned(4)

\* calculateSearchArea has returned the boundary of the device's pointing.
AreaBuilt == called /\ call.fn = "calculateSearchAreaFromDevice"

FiniteInputs ==
    /\ isFinite(call.alpha) /\ isFinite(call.beta) /\ isFinite(call.gamma)
    /\ isFinite(call.latitude) /\ isFinite(call.longitude)

\* An object at the center of the boundary.
CenterObject == [Loc1_RA |-> ret.centerRA, Loc2_DEC |-> ret.centerDec]

CenterInBoundary ==
    /\ Le(ret.minRA, ret.maxRA) => (Le(ret.minRA, ret.centerRA) /\ Le(ret.centerRA, ret.maxRA))
    /\ Gt(ret.minRA, ret.maxRA) => (Ge(ret.centerRA, ret.minRA) \/ Le(ret.centerRA, ret.maxRA))
    /\ passesBoundary(ret, CenterObject)

\* C27 as stated: every boundary built by calculateSearchArea from finite
\* inputs with radius >= 0 contains its center in right ascension, within
\* [minRA, maxRA] when minRA <= maxRA and at or above minRA or at or below
\* maxRA when minRA > maxRA, and an object at the center passes the search
\* filter.
C27_CenterInBoundary ==
    (AreaBuilt /\ FiniteInputs /\ call.searchRadiusDegrees >= 0) => CenterInBoundary

\* C27, amended: the same for inputs whose conversion to radians does not
\* overflow.
C27_CenterInBoundaryConvertible ==
    (/\ AreaBuilt /\ FiniteInputs /\ call.searchRadiusDegrees >= 0
     /\ Convertible(call.alpha) /\ Convertible(call.beta) /\ Convertible(call.gamma)
     /\ Convertible(call.latitude)) => CenterInBoundary

\* A boundary across 0h around a center at RA 0, from finite inputs.
C27_Witness ==
    /\ AreaBuilt /\ FiniteInputs
    /\ call.alpha = 0 /\ call.searchRadiusDegrees = Deg(7)
    /\ ret.centerRA = 0 /\ ret.minRA > ret.maxRA /\ ret.maxRA > 0
    /\ passesBoundary(ret, CenterObject)

\* C29: when calculateSearchArea is called with a non-finite orientation or
\* location, searchCelestialObjects on the boundary it returns finds no
\* object: the result list is empty.
C29_NonFiniteFindsNothing ==
    (Searched /\ AreaBuilt /\ ~FiniteInputs) => sResults = <<>>

\* The great-circle separation of two points on one meridian circle: the
\* difference of the declinations on the same meridian, the arc over the
\* nearer pole on opposite meridians.
OnMeridianCircle(ra1, ra2) == wrapDegrees(ra2 - ra1) \in {0, Deg(180)}
MeridianSeparation(ra1, dec1, ra2, dec2) ==
    IF wrapDegrees(ra2 - ra1) = 0 THEN Abs(dec1 - dec2)
    ELSE Min2(Deg(180) - dec1 - dec2, Deg(180) + dec1 + dec2)

\* C30: the RA/Dec rectangle built by calculateSearchArea covers the whole
\* search circle: every object whose great-circle separation from the center
\* is at most searchRadiusDegrees is returned by searchCelestialObjects, also
\* when the circle contains a celestial pole.  (Stated for the objects on the
\* meridian circle of the center, where the separation is exact.)
C30_CircleCovered ==
    (Searched /\ AreaBuilt /\ isFinite(ret.centerRA) /\ isFinite(ret.centerDec)) =>
        \A i \in DOMAIN sDataset :
            LET ra == wrapDegrees(sDataset[i].Loc1_RA)
                dec == sDataset[i].Loc2_DEC
            IN  (/\ OnMeridianCircle(ret.centerRA, ra)
                 /\ MeridianSeparation(ret.centerRA, ret.centerDec, ra, dec)
                        <= ret.searchRadiusDegrees)
                    => Returned(i)

-----------------------------------------------------------------------------
(* Properties of overlapping scans *)

\* The invocation begun last.
Latest == CHOOSE r \in Invocations : \A q \in Invocations : q.n <= r.n

\* C28: when scanArea is invoked again while an earlier invocation is still
\* awaiting, the scan state stays consistent: while any invocation is in
\* progress the state is 'scanning' or 'processing', and once all have
\* finished the state and the results are those of the invocation begun
\* last.
C28_ConsistentState ==
    Cardinality(Invocations) >= 2 =>
        /\ (\E r \in Invocations : Awaiting(r)) => state \in {"scanning", "processing"}
        /\ (\A r \in Invocations : r.pc = "done") =>
              IF Latest.thrown = "" THEN state = "complete" /\ results = Latest.returned
              ELSE state = "idle"

=============================================================================
